---- MODULE Spec2Model ----
(***************************************************************************)
(* FileVue server: path confinement (utils/index.js), session and CSRF     *)
(* middleware (server.js, routes/auth.js) and the share registry           *)
(* (routes/shares.js), modelled as a state machine over a small symbolic   *)
(* filesystem.                                                             *)
(*                                                                         *)
(* A path string is a sequence of one-character strings, so that           *)
(* String.prototype.startsWith is a genuine prefix test on characters and  *)
(* path.normalize / path.resolve / path.join are computed segment by       *)
(* segment as Node's posix implementation computes them.                   *)
(***************************************************************************)
EXTENDS Integers, Sequences, FiniteSets, TLC

VARIABLES
    fs,              \* the host filesystem: physical absolute path -> node
    AUTH_REQUIRED,   \* server.js:61, fixed at process start
    READ_ONLY_MODE,  \* server.js:38, fixed at process start
    sessionVersion,  \* server.js:70
    shares,          \* shares.js:18, Map shareId -> share record
    now,             \* Date.now(), in ms since process start
    issued,          \* session tokens minted by login so far
    login,           \* the login request suspended in verifyPassword
    task,            \* the file/share request suspended at its first await
    resp,            \* the last response sent, with what its handler touched
    invalidations,   \* number of completed incrementSessionVersion calls
    nreq,            \* number of requests accepted so far
    minted,          \* number of random ids/tokens drawn so far
    handed,          \* share access tokens that reached a client: <<shareId, token>>
    hostChanges,     \* number of changes made to the tree behind the server
    retargeted,      \* client paths that resolved until the last change put a
                     \* symlink on them that points outside the root
    search,          \* the search request in progress: its traversal and results
    storedPassword   \* server.js:278, AUTH_PASSWORD_HASH || AUTH_PASSWORD_PLAIN

vars == <<fs, AUTH_REQUIRED, READ_ONLY_MODE, storedPassword, sessionVersion, shares, now,
          issued, login, task, resp, invalidations, nreq, minted, handed, hostChanges, retargeted, search>>

----------------------------------------------------------------------------
(* Strings *)

EMPTY == <<>>
SLASH == <<"/">>
DOT == <<".">>
DOTDOT == <<".", ".">>

startsWith(s, prefix) ==
    /\ Len(prefix) <= Len(s)
    /\ SubSeq(s, 1, Len(prefix)) = prefix

endsWith(s, suffix) ==
    /\ Len(suffix) <= Len(s)
    /\ SubSeq(s, Len(s) - Len(suffix) + 1, Len(s)) = suffix

RECURSIVE SplitAcc(_, _, _)
SplitAcc(s, cur, acc) ==
    IF s = EMPTY
    THEN IF cur = EMPTY THEN acc ELSE Append(acc, cur)
    ELSE IF Head(s) = "/"
         THEN SplitAcc(Tail(s), EMPTY, IF cur = EMPTY THEN acc ELSE Append(acc, cur))
         ELSE SplitAcc(Tail(s), Append(cur, Head(s)), acc)

\* the non-empty segments of a path string
Segments(s) == SplitAcc(s, EMPTY, <<>>)

RECURSIVE JoinSegments(_)
JoinSegments(segs) ==
    IF segs = <<>> THEN EMPTY
    ELSE IF Len(segs) = 1 THEN Head(segs)
    ELSE Head(segs) \o SLASH \o JoinSegments(Tail(segs))

\* Node's normalizeString: "." dropped, ".." pops a segment, or is kept when
\* nothing is left to pop and the path is relative
RECURSIVE NormalizeAcc(_, _, _)
NormalizeAcc(segs, acc, allowAboveRoot) ==
    IF segs = <<>> THEN acc
    ELSE LET seg == Head(segs) IN
         IF seg = DOT THEN NormalizeAcc(Tail(segs), acc, allowAboveRoot)
         ELSE IF seg = DOTDOT
              THEN IF acc # <<>> /\ acc[Len(acc)] # DOTDOT
                   THEN NormalizeAcc(Tail(segs), SubSeq(acc, 1, Len(acc) - 1), allowAboveRoot)
                   ELSE IF allowAboveRoot
                        THEN NormalizeAcc(Tail(segs), Append(acc, seg), allowAboveRoot)
                        ELSE NormalizeAcc(Tail(segs), acc, allowAboveRoot)
              ELSE NormalizeAcc(Tail(segs), Append(acc, seg), allowAboveRoot)

normalizeString(s, allowAboveRoot) ==
    JoinSegments(NormalizeAcc(Segments(s), <<>>, allowAboveRoot))

isAbsolute(s) == s # EMPTY /\ Head(s) = "/"

\* path.normalize (posix)
normalize(s) ==
    IF s = EMPTY THEN DOT
    ELSE LET abs == isAbsolute(s)
             trailing == s[Len(s)] = "/"
             p == normalizeString(s, ~abs)
         IN IF p = EMPTY
            THEN IF abs THEN SLASH ELSE IF trailing THEN DOT \o SLASH ELSE DOT
            ELSE (IF abs THEN SLASH ELSE EMPTY) \o p \o (IF trailing THEN SLASH ELSE EMPTY)

\* path.resolve(from, to) with an absolute `from`
resolve(from, to) ==
    LET joined == IF isAbsolute(to) THEN to
                  ELSE IF to = EMPTY THEN from ELSE from \o SLASH \o to
    IN SLASH \o normalizeString(joined, FALSE)

\* path.join(a, b)
join(a, b) ==
    IF a = EMPTY THEN normalize(b)
    ELSE IF b = EMPTY THEN normalize(a)
    ELSE normalize(a \o SLASH \o b)

\* path.dirname / path.basename of an absolute path
dirname(s) ==
    LET segs == Segments(s) IN
    IF Len(segs) <= 1 THEN (IF isAbsolute(s) THEN SLASH ELSE DOT)
    ELSE (IF isAbsolute(s) THEN SLASH ELSE EMPTY) \o JoinSegments(SubSeq(segs, 1, Len(segs) - 1))

basename(s) ==
    LET segs == Segments(s) IN
    IF segs = <<>> THEN EMPTY ELSE segs[Len(segs)]

----------------------------------------------------------------------------
(* The filesystem collaborator *)

\* file and directory names of the model's host
nR   == <<"r">>          \* the root directory's name
nR2  == <<"r", "2">>     \* a sibling of the root whose name extends the root's
nO   == <<"o">>          \* a directory outside the root
nA   == <<"a">>
nF   == <<"f">>
nL   == <<"l">>
nN   == <<"n">>
nS   == <<"s">>
nZ   == <<"z">>

Abs(segs) == SLASH \o JoinSegments(segs)
Rel(segs) == JoinSegments(segs)

ROOT_DIRECTORY == Abs(<<nR>>)

Dir == [kind |-> "dir", target |-> EMPTY]
File == [kind |-> "file", target |-> EMPTY]
Link(t) == [kind |-> "link", target |-> t]

Ok(p) == [ok |-> TRUE, path |-> p, err |-> "none"]
Err(e) == [ok |-> FALSE, path |-> EMPTY, err |-> e]

\* symlinks followed by one realpath call before ELOOP
MaxSymlinks == 3

\* the node at physical path p ("/" is always a directory)
NodeAt(f, p) == IF p = SLASH THEN Dir ELSE f[p]
Exists(f, p) == p = SLASH \/ p \in DOMAIN f

\* fsp.realpath: walk the segments from "/", following every symlink
RECURSIVE Walk(_, _, _, _)
Walk(f, cur, segs, fuel) ==
    IF segs = <<>> THEN Ok(IF cur = EMPTY THEN SLASH ELSE cur)
    ELSE IF cur # EMPTY /\ NodeAt(f, cur).kind # "dir" THEN Err("ENOTDIR")
    ELSE LET nxt == cur \o SLASH \o Head(segs) IN
         IF nxt \notin DOMAIN f THEN Err("ENOENT")
         ELSE IF f[nxt].kind = "link"
              THEN IF fuel = 0 THEN Err("ELOOP")
                   ELSE LET t == Walk(f, EMPTY, Segments(f[nxt].target), fuel - 1) IN
                        IF ~t.ok THEN t
                        ELSE Walk(f, IF t.path = SLASH THEN EMPTY ELSE t.path,
                                  Tail(segs), fuel)
              ELSE Walk(f, nxt, Tail(segs), fuel)

realpath(f, p) == Walk(f, EMPTY, Segments(p), MaxSymlinks)

\* the physical entry a path names when its last component is not followed
\* (lstat, unlink, rm, open with O_CREAT|O_EXCL): the real parent plus the name
EntryOf(f, p) ==
    IF Segments(p) = <<>> THEN Ok(SLASH)
    ELSE LET parent == realpath(f, dirname(p)) IN
         IF ~parent.ok THEN parent
         ELSE IF NodeAt(f, parent.path).kind # "dir" THEN Err("ENOTDIR")
         ELSE Ok(join(parent.path, basename(p)))

\* is physical path p the directory d or something below it
IsWithin(p, d) == p = d \/ d = SLASH \/ startsWith(p, d \o SLASH)
IsWithinRoot(p) == IsWithin(p, ROOT_DIRECTORY)

\* the entries at or below physical path p
Subtree(f, p) == {q \in DOMAIN f : IsWithin(q, p)}

Remove(f, p) == [q \in DOMAIN f \ Subtree(f, p) |-> f[q]]
Put(f, p, node) == [q \in (DOMAIN f \ Subtree(f, p)) \cup {p} |-> IF q = p THEN node ELSE f[q]]

----------------------------------------------------------------------------
(* utils/index.js *)

ESCAPES == "Path escapes the configured root directory."
ESCAPES_SYMLINK == "Path escapes the configured root directory via symlink."
IsEscapeError(e) == e \in {ESCAPES, ESCAPES_SYMLINK}

\* values of a JSON body or a query string: a string is its sequence of
\* characters; a value of another type is a sequence that starts with the
\* name of its type (all of those used are truthy, as the empty string is not)
JsonTypes == {"number", "boolean", "object", "array"}
typeof(v) == IF v # EMPTY /\ v[1] \in JsonTypes THEN v[1] ELSE "string"
Number7 == <<"number", "7">>
ArrayOf(v) == <<"array">> \o v

\* path.normalize throws ERR_INVALID_ARG_TYPE for what is not a string
resolveSafePath(relativePath) ==
    IF typeof(relativePath) # "string" THEN Err("ERR_INVALID_ARG_TYPE")
    ELSE
    LET normalized == normalize(IF relativePath = EMPTY THEN DOT ELSE relativePath)
        resolved == resolve(ROOT_DIRECTORY, normalized)
    IN IF ~startsWith(resolved, ROOT_DIRECTORY) THEN Err(ESCAPES) ELSE Ok(resolved)

resolveSafePathWithSymlinkCheck(f, relativePath) ==
    LET lexical == resolveSafePath(relativePath) IN
    IF ~lexical.ok THEN lexical
    ELSE LET resolved == lexical.path
             real == realpath(f, resolved)
         IN IF ~real.ok
            THEN IF real.err = "ENOENT"
                 THEN LET parentReal == realpath(f, dirname(resolved)) IN
                      IF ~parentReal.ok THEN parentReal
                      ELSE IF ~startsWith(parentReal.path, ROOT_DIRECTORY)
                           THEN Err(ESCAPES_SYMLINK)
                           ELSE Ok(resolved)
                 ELSE real
            ELSE IF ~startsWith(real.path, ROOT_DIRECTORY)
                 THEN Err(ESCAPES_SYMLINK)
                 ELSE real

\* crypto.timingSafeEqual after the length test: equal byte for byte
\* safeCompare comparing as many bytes as the shorter value has: what C25
\* rules out
safeComparePrefix(a, b) ==
    IF typeof(a) # "string" \/ typeof(b) # "string" THEN FALSE
    ELSE \A i \in 1..(IF Len(a) < Len(b) THEN Len(a) ELSE Len(b)) : a[i] = b[i]

safeCompare(a, b) ==
    IF typeof(a) # "string" \/ typeof(b) # "string" THEN FALSE
    ELSE Len(a) = Len(b) /\ a = b

----------------------------------------------------------------------------
(* server.js: configuration, tokens, middleware *)

SESSION_TTL_SECONDS == 3600
MsPerSecond == 1000

\* a CSRF value or access code is a string; EMPTY is an absent cookie/header
CsrfA == <<"c">>
CsrfB == <<"d">>
CsrfLong == <<"c", "c">>
CsrfValues == {EMPTY, CsrfA, CsrfB, CsrfLong}

\* a session token: the JWT payload, whether its signature verifies under
\* SESSION_SECRET, and (history) how many invalidations had completed when the
\* login started and when the token was minted
NoToken == [username |-> EMPTY, sessionVersion |-> 0, exp |-> 0, sig |-> "none",
            startInv |-> 0, mintInv |-> 0]
Forged(v) == [username |-> <<"u">>, sessionVersion |-> v, exp |-> 0, sig |-> "bad",
              startInv |-> 0, mintInv |-> 0]

NoCreds == [token |-> NoToken, csrfCookie |-> EMPTY, csrfHeader |-> EMPTY]

\* jwt.verify(token, SESSION_SECRET): the signature verifies and exp is ahead
jwtVerify(token, clock) ==
    /\ token.sig = "ok"
    /\ clock \div MsPerSecond < token.exp

\* a share id as it stands in a request path: the ids generateShareId draws
\* are hexadecimal; a client can put any other word in their place, and the
\* numbers below zero stand for three such words
HexChars == <<"0", "1", "2", "3", "4", "5", "6", "7", "8", "9",
              "a", "b", "c", "d", "e", "f">>
RECURSIVE ToHex(_)
ToHex(n) ==
    IF n < 16 THEN <<HexChars[n + 1]>>
    ELSE ToHex(n \div 16) \o <<HexChars[(n % 16) + 1]>>
VerifyWord == 0 - 1
ContentWord == 0 - 2
OtherWord == 0 - 3
WordIds == {VerifyWord, ContentWord, OtherWord}
ShareIdText(shareId) ==
    CASE shareId = VerifyWord -> <<"v", "e", "r", "i", "f", "y">>
      [] shareId = ContentWord -> <<"c", "o", "n", "t", "e", "n", "t">>
      [] shareId = OtherWord -> <<"z", "z">>
      [] OTHER -> ToHex(shareId)

\* req.path as requireAuth, mounted on /api, sees it
Routes == {"login", "status", "logout", "invalidateSessions", "health", "tree",
           "content", "download", "createFile", "upload", "createFolder",
           "deleteEntry", "search", "createShare", "listShares", "deleteShare",
           "shareVerify", "shareContent", "shareDownload"}
reqPath(route, shareId) ==
    CASE
         route = "login" -> <<"/", "a", "u", "t", "h", "/", "l", "o", "g", "i", "n">>
      [] route = "status" -> <<"/", "a", "u", "t", "h", "/", "s", "t", "a", "t", "u", "s">>
      [] route = "logout" -> <<"/", "a", "u", "t", "h", "/", "l", "o", "g", "o", "u", "t">>
      [] route = "invalidateSessions" -> <<"/", "a", "u", "t", "h", "/", "i", "n", "v", "a", "l", "i", "d", "a", "t", "e", "-", "s", "e", "s", "s", "i", "o", "n", "s">>
      [] route = "health" -> <<"/", "h", "e", "a", "l", "t", "h">>
      [] route = "tree" -> <<"/", "t", "r", "e", "e">>
      [] route = "content" -> <<"/", "f", "i", "l", "e", "/", "c", "o", "n", "t", "e", "n", "t">>
      [] route = "download" -> <<"/", "f", "i", "l", "e", "/", "d", "o", "w", "n", "l", "o", "a", "d">>
      [] route = "createFile" -> <<"/", "f", "i", "l", "e">>
      [] route = "upload" -> <<"/", "f", "i", "l", "e", "/", "u", "p", "l", "o", "a", "d">>
      [] route = "createFolder" -> <<"/", "f", "o", "l", "d", "e", "r", "s">>
      [] route = "deleteEntry" -> <<"/", "e", "n", "t", "r", "i", "e", "s">>
      [] route = "search" -> <<"/", "s", "e", "a", "r", "c", "h">>
      [] route = "createShare" -> <<"/", "s", "h", "a", "r", "e", "s">>
      [] route = "listShares" -> <<"/", "s", "h", "a", "r", "e", "s">>
      [] route = "deleteShare" -> <<"/", "s", "h", "a", "r", "e", "s", "/">> \o ShareIdText(shareId)
      [] route = "shareVerify" ->
            <<"/", "s", "h", "a", "r", "e", "s", "/">> \o ShareIdText(shareId) \o <<"/", "v", "e", "r", "i", "f", "y">>
      [] route = "shareContent" ->
            <<"/", "s", "h", "a", "r", "e", "s", "/">> \o ShareIdText(shareId) \o <<"/", "c", "o", "n", "t", "e", "n", "t">>
      [] route = "shareDownload" ->
            <<"/", "s", "h", "a", "r", "e", "s", "/">> \o ShareIdText(shareId) \o <<"/", "d", "o", "w", "n", "l", "o", "a", "d">>

\* requireAuth without its exemption of the share paths: what C28 rules out
IsPublicPathAuthOnly(path) ==
    path \in {<<"/", "a", "u", "t", "h", "/", "l", "o", "g", "i", "n">>,
              <<"/", "a", "u", "t", "h", "/", "s", "t", "a", "t", "u", "s">>,
              <<"/", "a", "u", "t", "h", "/", "l", "o", "g", "o", "u", "t">>,
              <<"/", "h", "e", "a", "l", "t", "h">>}

\* the paths requireAuth lets through without a token
IsPublicPath(path) ==
    \/ path \in {<<"/", "a", "u", "t", "h", "/", "l", "o", "g", "i", "n">>,
                 <<"/", "a", "u", "t", "h", "/", "s", "t", "a", "t", "u", "s">>,
                 <<"/", "a", "u", "t", "h", "/", "l", "o", "g", "o", "u", "t">>,
                 <<"/", "h", "e", "a", "l", "t", "h">>}
    \/ /\ startsWith(path, <<"/", "s", "h", "a", "r", "e", "s", "/">>)
       /\ \/ endsWith(path, <<"/", "v", "e", "r", "i", "f", "y">>)
          \/ endsWith(path, <<"/", "c", "o", "n", "t", "e", "n", "t">>)
          \/ endsWith(path, <<"/", "d", "o", "w", "n", "l", "o", "a", "d">>)
          \/ endsWith(path, <<"/", "e", "n", "t", "r", "i", "e", "s">>)
          \/ endsWith(path, <<"/", "t", "h", "u", "m", "b", "n", "a", "i", "l">>)
          \/ endsWith(path, <<"/", "p", "r", "e", "v", "i", "e", "w">>)

\* the routes whose path, with a share id that generateShareId drew, is public
ExemptRoutes == {route \in Routes : IsPublicPath(reqPath(route, 1))}

Pass == [pass |-> TRUE, status |-> 0, error |-> "none"]
Deny(status, error) == [pass |-> FALSE, status |-> status, error |-> error]

\* requireAuth without the comparison of payload.sessionVersion: what C5 rules out
requireAuthIgnoringVersion(authRequired, version, clock, path, token) ==
    IF ~authRequired THEN Pass
    ELSE IF IsPublicPath(path) THEN Pass
    ELSE IF token.sig = "none" THEN Deny(401, "Authentication required.")
    ELSE IF ~jwtVerify(token, clock) THEN Deny(401, "Invalid or expired token.")
    ELSE Pass

\* requireAuth comparing the session version of the decoded payload before
\* it verifies the token: what C23 rules out
requireAuthVersionFirst(authRequired, version, clock, path, token) ==
    IF ~authRequired THEN Pass
    ELSE IF IsPublicPath(path) THEN Pass
    ELSE IF token.sig = "none" THEN Deny(401, "Authentication required.")
    ELSE IF token.sessionVersion # version THEN Deny(401, "Session has been invalidated.")
    ELSE IF ~jwtVerify(token, clock) THEN Deny(401, "Invalid or expired token.")
    ELSE Pass

requireAuth(authRequired, version, clock, path, token) ==
    IF ~authRequired THEN Pass
    ELSE IF IsPublicPath(path) THEN Pass
    ELSE IF token.sig = "none" THEN Deny(401, "Authentication required.")
    ELSE IF ~jwtVerify(token, clock) THEN Deny(401, "Invalid or expired token.")
    ELSE IF token.sessionVersion # version THEN Deny(401, "Session has been invalidated.")
    ELSE Pass

\* csrfProtection comparing only when the header was sent: what C7 rules out
csrfProtectionHeaderOptional(authRequired, csrfCookie, csrfHeader) ==
    IF ~authRequired THEN Pass
    ELSE IF csrfHeader # EMPTY /\ ~safeCompare(csrfCookie, csrfHeader)
         THEN Deny(403, "CSRF token validation failed.")
         ELSE Pass

csrfProtection(authRequired, csrfCookie, csrfHeader) ==
    IF ~authRequired THEN Pass
    ELSE IF csrfCookie = EMPTY \/ csrfHeader = EMPTY \/ ~safeCompare(csrfCookie, csrfHeader)
         THEN Deny(403, "CSRF token validation failed.")
         ELSE Pass

\* ensureWritable without its test of READ_ONLY_MODE: what C20 rules out
ensureWritableAlways(readOnly) == Pass

ensureWritable(readOnly) ==
    IF readOnly THEN Deny(403, "Server is running in read-only mode.") ELSE Pass

\* the routes with csrfProtection, DELETE /api/shares/:shareId left out: what
\* C15 rules out
CsrfRoutesWithoutDeleteShare ==
    {"createFile", "upload", "createFolder", "deleteEntry", "createShare",
     "invalidateSessions"}

\* routes registered with ensureWritable, and with csrfProtection
WriteRoutes == {"createFile", "upload", "createFolder", "deleteEntry"}
CsrfRoutes == WriteRoutes \cup {"createShare", "deleteShare", "invalidateSessions"}

\* the middleware in front of a route's handler, in registration order:
\* app.use('/api', requireAuth), then the route's ensureWritable, csrfProtection
GateFor(route, shareId, creds) ==
    LET auth == requireAuth(AUTH_REQUIRED, sessionVersion, now, reqPath(route, shareId),
                            creds.token)
        writable == IF route \in WriteRoutes THEN ensureWritable(READ_ONLY_MODE) ELSE Pass
        csrf == IF route \in CsrfRoutes
                THEN csrfProtection(AUTH_REQUIRED, creds.csrfCookie, creds.csrfHeader)
                ELSE Pass
    IN IF ~auth.pass THEN auth
       ELSE IF ~writable.pass THEN writable
       ELSE csrf

\* the same for a route without a share id in its path
Gate(route, creds) == GateFor(route, 0, creds)

\* requireAuth in front of the share routes a visitor calls, who has no
\* session token
Visitor(route, shareId) ==
    requireAuth(AUTH_REQUIRED, sessionVersion, now, reqPath(route, shareId), NoToken)

\* the error-handling middleware (server.js)
ErrorStatus(err) ==
    IF err = "ENOENT" THEN 404
    ELSE IF IsEscapeError(err) THEN 400
    ELSE 500
ErrorBody(err) ==
    IF err = "ENOENT" THEN "Path not found."
    ELSE IF IsEscapeError(err) THEN err
    ELSE "Internal server error."

----------------------------------------------------------------------------
(* Requests and responses *)

\* requests accepted in one run: of any specification, of the share
\* specification, of the session specification and of the path specification
MaxRequests == 5
MaxShareRequests == 4
MaxSessionRequests == 3
MaxPathRequests == 2

\* expiresInHours as the client sent it: a number, or absent / not a number
Hours(v) == [num |-> TRUE, v |-> v]
NoHours == [num |-> FALSE, v |-> 0]

\* asked: the expiresInHours the request in flight came with; user: req.user
Idle == [pc |-> "idle", route |-> "none", validated |-> EMPTY, target |-> EMPTY,
         relative |-> EMPTY, hours |-> 0, asked |-> NoHours, share |-> 0,
         shareToken |-> 0, csrfOk |-> FALSE, user |-> NoToken]

\* req.user = payload, where requireAuth verified a token
User(route, creds) ==
    IF AUTH_REQUIRED /\ route \notin ExemptRoutes THEN creds.token ELSE NoToken

\* what the client sent, as far as the properties need it
CsrfOkOf(creds) ==
    /\ creds.csrfCookie # EMPTY
    /\ creds.csrfHeader # EMPTY
    /\ creds.csrfCookie = creds.csrfHeader

Response(route, status, error, creds) ==
    [route |-> route, status |-> status, error |-> error,
     act |-> "none", touched |-> EMPTY, validated |-> EMPTY,
     relative |-> EMPTY, target |-> EMPTY,
     token |-> creds.token, csrfOk |-> CsrfOkOf(creds),
     share |-> 0, shareToken |-> 0, csrfToken |-> 0]

NoResponse == Response("none", 0, "none", NoCreds)

\* the response of a suspended request: its status and what it touched
Finish(status, error, act, touched) ==
    [route |-> task.route, status |-> status, error |-> error,
     act |-> act, touched |-> touched, validated |-> task.validated,
     relative |-> task.relative, target |-> task.target,
     token |-> NoToken, csrfOk |-> task.csrfOk,
     share |-> task.share, shareToken |-> task.shareToken, csrfToken |-> 0]

Done(r) == /\ resp' = r
           /\ task' = Idle

FinishError(err) == Finish(ErrorStatus(err), ErrorBody(err), "none", EMPTY)

----------------------------------------------------------------------------
(* routes/files.js, routes/tree.js, routes/folders.js, routes/entries.js:    *)
(* the part of each handler up to and including its                          *)
(* `await resolveSafePathWithSymlinkCheck(...)`                              *)

\* String.prototype.trim on names whose only whitespace is " "
RECURSIVE TrimLeft(_)
TrimLeft(s) == IF s # EMPTY /\ Head(s) = " " THEN TrimLeft(Tail(s)) ELSE s
RECURSIVE TrimRight(_)
TrimRight(s) == IF s # EMPTY /\ s[Len(s)] = " " THEN TrimRight(SubSeq(s, 1, Len(s) - 1)) ELSE s
trim(s) == TrimRight(TrimLeft(s))

NoPathError(route) ==
    CASE route = "createFile" -> "File name is required."
      [] route = "createFolder" -> "Folder name is required."
      [] route = "createShare" -> "Path is required."
      [] OTHER -> "Query parameter \"path\" is required."

\* the test of delete-entry on the request's path as the client sent it,
\* which only "." passes: what C24 rules out
IsRootUnresolved(relativePath, targetPath) == relativePath = DOT

\* targetPath === ROOT_DIRECTORY
IsRoot(relativePath, targetPath) == targetPath = ROOT_DIRECTORY

\* relativePath is what is handed to resolveSafePathWithSymlinkCheck; name is
\* what the handler joins to the result (EMPTY: nothing); missing: the
\* handler's own 400 for an absent argument
Start(route, creds, missing, missingError, relativePath, name, hours, asked) ==
    /\ task.pc = "idle"
    /\ nreq < MaxRequests
    /\ nreq' = nreq + 1
    /\ LET gate == Gate(route, creds)
           r == resolveSafePathWithSymlinkCheck(fs, relativePath)
       IN IF ~gate.pass
          THEN resp' = Response(route, gate.status, gate.error, creds) /\ task' = task
          ELSE IF missing
          THEN resp' = Response(route, 400, missingError, creds) /\ task' = task
          ELSE IF ~r.ok
          THEN resp' = [Response(route, ErrorStatus(r.err), ErrorBody(r.err), creds)
                            EXCEPT !.relative = relativePath]
               /\ task' = task
          ELSE IF route = "deleteEntry" /\ IsRoot(relativePath, r.path)
          THEN resp' = [Response(route, 400, "Cannot delete the root directory.", creds)
                            EXCEPT !.validated = r.path, !.relative = relativePath]
               /\ task' = task
          ELSE /\ task' = [Idle EXCEPT !.pc = "await", !.route = route,
                                       !.validated = r.path,
                                       !.target = IF name = EMPTY THEN r.path
                                                  ELSE join(r.path, name),
                                       !.relative = relativePath,
                                       !.hours = hours,
                                       !.asked = asked,
                                       !.user = User(route, creds),
                                       !.csrfOk = CsrfOkOf(creds)]
               /\ resp' = resp
    /\ UNCHANGED <<fs, AUTH_REQUIRED, READ_ONLY_MODE, storedPassword, sessionVersion, shares, now,
                   issued, login, invalidations, minted, handed, hostChanges, retargeted, search>>

GetContent(creds, path) ==
    Start("content", creds, path = EMPTY, NoPathError("content"), path, EMPTY, 0, NoHours)

GetDownload(creds, path) ==
    Start("download", creds, path = EMPTY, NoPathError("download"), path, EMPTY, 0, NoHours)

GetTree(creds, path) ==
    Start("tree", creds, FALSE, "none", IF path = EMPTY THEN DOT ELSE path, EMPTY, 0, NoHours)

DeleteEntry(creds, path) ==
    Start("deleteEntry", creds, path = EMPTY, NoPathError("deleteEntry"), path, EMPTY, 0, NoHours)

PostFile(creds, parentPath, name) ==
    Start("createFile", creds, name = EMPTY, NoPathError("createFile"), parentPath, name, 0, NoHours)

PostFolder(creds, parentPath, name) ==
    Start("createFolder", creds, trim(name) = EMPTY,
          IF name = EMPTY THEN NoPathError("createFolder") ELSE "Folder name cannot be empty.",
          parentPath, trim(name), 0, NoHours)

\* multer's diskStorage: destination resolves parentPath, filename is the
\* basename of the client's file name
PostUpload(creds, parentPath, originalname) ==
    Start("upload", creds, FALSE, "none",
          IF parentPath = EMPTY THEN DOT ELSE parentPath, basename(originalname), 0, NoHours)

----------------------------------------------------------------------------
(* the rest of each handler: the filesystem call made on the validated path, *)
(* in the filesystem as it is when the call is made                          *)

Others == <<AUTH_REQUIRED, READ_ONLY_MODE, storedPassword, sessionVersion, now, issued, login,
            invalidations, nreq, handed, hostChanges, retargeted, search>>

\* content, download: fsp.stat, then fsp.readFile / res.download
SendFile ==
    /\ task.pc = "await"
    /\ task.route \in {"content", "download"}
    /\ LET st == realpath(fs, task.target) IN
       IF ~st.ok THEN Done(FinishError(st.err))
       ELSE IF NodeAt(fs, st.path).kind = "dir"
            THEN Done(Finish(400, "Path resolves to a directory.", "none", EMPTY))
            ELSE Done(Finish(200, "none", "read", st.path))
    /\ UNCHANGED <<fs, shares, minted>>
    /\ UNCHANGED Others

\* tree: fsp.stat, then getDirectoryEntries
ListTree ==
    /\ task.pc = "await"
    /\ task.route = "tree"
    /\ LET st == realpath(fs, task.target) IN
       IF ~st.ok THEN Done(FinishError(st.err))
       ELSE IF NodeAt(fs, st.path).kind # "dir"
            THEN Done(Finish(400, "Path must identify a directory.", "none", EMPTY))
            ELSE Done(Finish(200, "none", "list", st.path))
    /\ UNCHANGED <<fs, shares, minted>>
    /\ UNCHANGED Others

\* entries: fsp.rm(targetPath, {recursive: true, force: true})
RemoveEntry ==
    /\ task.pc = "await"
    /\ task.route = "deleteEntry"
    /\ LET e == EntryOf(fs, task.target) IN
       IF ~e.ok /\ e.err # "ENOENT"
       THEN Done(FinishError(e.err)) /\ fs' = fs
       ELSE IF ~e.ok \/ ~Exists(fs, e.path) \/ e.path = SLASH
       THEN Done(Finish(200, "Entry deleted.", "none", EMPTY)) /\ fs' = fs
       ELSE /\ fs' = Remove(fs, e.path)
            /\ Done(Finish(200, "Entry deleted.", "delete", e.path))
    /\ UNCHANGED <<shares, minted>>
    /\ UNCHANGED Others

\* fsp.writeFile(destination, buffer, {flag: 'wx'}) and
\* fsp.mkdir(destination, {recursive: false}): a new entry in the real parent
Create(route, node, message) ==
    /\ task.pc = "await"
    /\ task.route = route
    /\ LET e == EntryOf(fs, task.target) IN
       IF ~e.ok THEN Done(FinishError(e.err)) /\ fs' = fs
       ELSE IF Exists(fs, e.path) THEN Done(FinishError("EEXIST")) /\ fs' = fs
       ELSE /\ fs' = Put(fs, e.path, node)
            /\ Done(Finish(201, message, "write", e.path))
    /\ UNCHANGED <<shares, minted>>
    /\ UNCHANGED Others

WriteFile == Create("createFile", File, "File created.")

MakeFolder == Create("createFolder", Dir, "Folder created.")

\* multer writes the upload with fs.createWriteStream(path.join(destination,
\* filename)): an existing file is overwritten through symlinks, a missing one
\* is created in the real parent
StoreUpload ==
    /\ task.pc = "await"
    /\ task.route = "upload"
    /\ LET st == realpath(fs, task.target)
           e == EntryOf(fs, task.target)
       IN IF st.ok
          THEN IF NodeAt(fs, st.path).kind = "dir"
               THEN Done(FinishError("EISDIR")) /\ fs' = fs
               ELSE /\ fs' = Put(fs, st.path, File)
                    /\ Done(Finish(201, "Files uploaded.", "write", st.path))
          ELSE IF ~e.ok \/ Exists(fs, e.path)
               THEN Done(FinishError(IF e.ok THEN "ENOENT" ELSE e.err)) /\ fs' = fs
               ELSE /\ fs' = Put(fs, e.path, File)
                    /\ Done(Finish(201, "Files uploaded.", "write", e.path))
    /\ UNCHANGED <<shares, minted>>
    /\ UNCHANGED Others

----------------------------------------------------------------------------
(* someone with access to the host changes the tree behind the server *)

\* where a symlink planted on the host may point
LinkTargets == {Abs(<<nO>>), Abs(<<nO, nS>>), Abs(<<nO, nZ>>), Abs(<<nR2, nS>>)}

\* the entries of the root that the host replaces by a symlink
HostPaths == {Abs(<<nR, nL>>), Abs(<<nR, nA>>), Abs(<<nR, nA, nF>>)}

\* changes to the tree in one run
MaxHostChanges == 1

\* the paths clients ask for
ClientPaths ==
    {DOT, Rel(<<nA>>), Rel(<<nA, nF>>), Rel(<<nL>>), Rel(<<nA, nN>>),
     Rel(<<nA, DOTDOT, DOTDOT, nO, nS>>), Abs(<<nO, nS>>),
     Rel(<<DOTDOT, nR2, nS>>)}

\* client path c resolves in tree f, the symlink p lies on it, and p is now
\* pointed at t, outside the root
RetargetedOutside(f, c, p, t) ==
    /\ resolveSafePathWithSymlinkCheck(f, c).ok
    /\ f[p].kind = "link"
    /\ IsWithin(resolveSafePath(c).path, p)
    /\ ~IsWithinRoot(t)

\* replace an entry inside the root by a symlink (or retarget a symlink)
EnvSymlink(p, t) ==
    /\ hostChanges < MaxHostChanges
    /\ hostChanges' = hostChanges + 1
    /\ p \in DOMAIN fs
    /\ IsWithinRoot(p)
    /\ p # ROOT_DIRECTORY
    /\ fs[p] # Link(t)
    /\ fs' = Put(fs, p, Link(t))
    /\ retargeted' = {c \in ClientPaths : RetargetedOutside(fs, c, p, t)}
    /\ UNCHANGED <<AUTH_REQUIRED, READ_ONLY_MODE, storedPassword, sessionVersion, shares, now, issued,
                   login, task, resp, invalidations, nreq, minted, handed, search>>

----------------------------------------------------------------------------
(* routes/shares.js *)

DEFAULT_SHARE_EXPIRY_HOURS == 24
MAX_SHARE_EXPIRY_HOURS == 168
MsPerHour == 3600000

Min(a, b) == IF a < b THEN a ELSE b
Max(a, b) == IF a > b THEN a ELSE b

\* Math.min(Math.max(1, Number(expiresInHours) || DEFAULT), MAX)
ExpiryHours(h) ==
    LET n == IF ~h.num \/ h.v = 0 THEN DEFAULT_SHARE_EXPIRY_HOURS ELSE h.v
    IN Min(Max(1, n), MAX_SHARE_EXPIRY_HOURS)

\* generateAccessCode: six characters of the code alphabet, Math.random
AccessCodes == {<<"A", "B", "C", "D", "E", "F">>, <<"A", "B", "C", "D", "E", "G">>}

\* String.prototype.toUpperCase on the letters a client types
UpperChar(c) ==
    CASE c = "a" -> "A" [] c = "b" -> "B" [] c = "c" -> "C" [] c = "d" -> "D"
      [] c = "e" -> "E" [] c = "f" -> "F" [] c = "g" -> "G" [] OTHER -> c
toUpperCase(s) == [i \in 1..Len(s) |-> UpperChar(s[i])]

\* generateShareId (crypto.randomBytes(8)) and the access token
\* (crypto.randomBytes(16)): a value never drawn before
Fresh == minted + 1

PostShare(creds, path, h) ==
    Start("createShare", creds, path = EMPTY, NoPathError("createShare"), path, EMPTY,
          ExpiryHours(h), h)

\* after the await: fsp.stat, then shares.set(shareId, share)
StoreShare ==
    /\ task.pc = "await"
    /\ task.route = "createShare"
    /\ LET st == realpath(fs, task.target) IN
       IF ~st.ok
       THEN Done(FinishError(st.err)) /\ UNCHANGED <<shares, minted>>
       ELSE \E accessCode \in AccessCodes :
              LET share == [id |-> Fresh,
                            accessCode |-> accessCode,
                            path |-> task.relative,
                            resolvedPath |-> task.validated,
                            isDirectory |-> NodeAt(fs, st.path).kind = "dir",
                            createdAt |-> now,
                            expiresAt |-> now + task.hours * MsPerHour,
                            accessCount |-> 0,
                            accessTokens |-> {}]
              IN /\ shares' = (Fresh :> share) @@ shares
                 /\ minted' = minted + 1
                 /\ Done([Finish(200, "none", "stat", st.path) EXCEPT !.share = Fresh])
    /\ UNCHANGED fs
    /\ UNCHANGED Others

Without(m, id) == [k \in DOMAIN m \ {id} |-> m[k]]

cleanupExpiredShares(m, clock) ==
    [k \in {i \in DOMAIN m : ~(m[i].expiresAt < clock)} |-> m[k]]

ShareResponse(route, status, error, shareId, token) ==
    [Response(route, status, error, NoCreds) EXCEPT !.share = shareId, !.shareToken = token]

\* GET /:shareId/verify up to its `await fsp.stat(share.resolvedPath)`
VerifyShare(shareId, code) ==
    /\ task.pc = "idle"
    /\ nreq < MaxRequests
    /\ nreq' = nreq + 1
    /\ IF ~Visitor("shareVerify", shareId).pass
       THEN /\ resp' = ShareResponse("shareVerify", Visitor("shareVerify", shareId).status,
                                     Visitor("shareVerify", shareId).error, shareId, 0)
            /\ UNCHANGED <<shares, minted, task>>
       ELSE IF code = EMPTY
       THEN /\ resp' = ShareResponse("shareVerify", 400, "Access code is required.", shareId, 0)
            /\ UNCHANGED <<shares, minted, task>>
       ELSE IF shareId \notin DOMAIN shares
       THEN /\ resp' = ShareResponse("shareVerify", 404, "Share not found or expired.", shareId, 0)
            /\ UNCHANGED <<shares, minted, task>>
       ELSE IF shares[shareId].expiresAt < now
       THEN /\ shares' = Without(shares, shareId)
            /\ resp' = ShareResponse("shareVerify", 404, "Share has expired.", shareId, 0)
            /\ UNCHANGED <<minted, task>>
       ELSE IF ~safeCompare(toUpperCase(code), shares[shareId].accessCode)
       THEN /\ resp' = ShareResponse("shareVerify", 403, "Invalid access code.", shareId, 0)
            /\ UNCHANGED <<shares, minted, task>>
       ELSE /\ shares' = [shares EXCEPT
                             ![shareId].accessTokens = @ \cup {Fresh},
                             ![shareId].accessCount = @ + 1]
            /\ minted' = minted + 1
            /\ task' = [Idle EXCEPT !.pc = "await", !.route = "shareVerify",
                                    !.target = shares[shareId].resolvedPath,
                                    !.share = shareId, !.shareToken = Fresh]
            /\ resp' = resp
    /\ UNCHANGED <<fs, AUTH_REQUIRED, READ_ONLY_MODE, storedPassword, sessionVersion, now, issued,
                   login, invalidations, handed, hostChanges, retargeted, search>>

\* a verify handler that writes its record back after the await,
\* shares.set(shareId, share): what C14 rules out
StoredAgainAfterAwait(m, shareId) ==
    IF shareId \in DOMAIN m THEN m
    ELSE (shareId :> [id |-> shareId, accessCode |-> EMPTY, path |-> EMPTY,
                      resolvedPath |-> EMPTY, isDirectory |-> FALSE,
                      createdAt |-> 0, expiresAt |-> 0, accessCount |-> 0,
                      accessTokens |-> {}]) @@ m

\* the share map after the rest of the verify handler has run: the handler
\* keeps its reference to the record and never writes the map again
AfterVerifyAwait(m, shareId) == m

\* after the await: the path must still exist, then the token is sent
VerifyReply ==
    /\ task.pc = "await"
    /\ task.route = "shareVerify"
    /\ shares' = AfterVerifyAwait(shares, task.share)
    /\ LET st == realpath(fs, task.target) IN
       IF ~st.ok
       THEN /\ Done(ShareResponse("shareVerify", 404, "Shared content no longer exists.",
                                  task.share, 0))
            /\ handed' = handed
       ELSE /\ Done(ShareResponse("shareVerify", 200, "none", task.share, task.shareToken))
            /\ handed' = handed \cup {<<task.share, task.shareToken>>}
    /\ UNCHANGED <<fs, AUTH_REQUIRED, READ_ONLY_MODE, storedPassword, sessionVersion, now,
                   issued, login, invalidations, nreq, minted, hostChanges, retargeted, search>>

\* verifyShareAccess accepting any token while the share exists: what C10
\* rules out
verifyShareAccessAnyToken(m, clock, shareId, accessToken) ==
    IF accessToken = 0 THEN Deny(401, "Share access token required.")
    ELSE IF shareId \notin DOMAIN m THEN Deny(404, "Share not found or expired.")
    ELSE IF m[shareId].expiresAt < clock THEN Deny(404, "Share has expired.")
    ELSE Pass

\* verifyShareAccess without the comparison of expiresAt with the clock: what
\* C11 rules out
verifyShareAccessNoExpiry(m, clock, shareId, accessToken) ==
    IF accessToken = 0 THEN Deny(401, "Share access token required.")
    ELSE IF shareId \notin DOMAIN m THEN Deny(404, "Share not found or expired.")
    ELSE IF accessToken \notin m[shareId].accessTokens
         THEN Deny(403, "Invalid share access token.")
         ELSE Pass

\* verifyShareAccess; 0 is an absent X-Share-Token header
verifyShareAccess(m, clock, shareId, accessToken) ==
    IF accessToken = 0 THEN Deny(401, "Share access token required.")
    ELSE IF shareId \notin DOMAIN m THEN Deny(404, "Share not found or expired.")
    ELSE IF m[shareId].expiresAt < clock THEN Deny(404, "Share has expired.")
    ELSE IF accessToken \notin m[shareId].accessTokens
         THEN Deny(403, "Invalid share access token.")
         ELSE Pass

\* the target of a content/download request inside a share
ShareTarget(share, subPath) ==
    IF share.isDirectory
    THEN LET normalizedSubPath == normalize(IF subPath = EMPTY THEN DOT ELSE subPath)
             targetPath == join(share.resolvedPath, normalizedSubPath)
         IN IF startsWith(normalizedSubPath, DOTDOT) THEN Err("outside")
            ELSE IF ~startsWith(targetPath, share.resolvedPath) THEN Err("outside")
            ELSE Ok(targetPath)
    ELSE Ok(share.resolvedPath)

\* GET /:shareId/content and /:shareId/download up to `await fsp.stat(targetPath)`
ShareAccess(route, shareId, accessToken, subPath) ==
    /\ task.pc = "idle"
    /\ nreq < MaxRequests
    /\ nreq' = nreq + 1
    /\ LET auth == Visitor(route, shareId)
           gate == IF auth.pass THEN verifyShareAccess(shares, now, shareId, accessToken)
                   ELSE auth
       IN
       IF ~gate.pass
       THEN /\ resp' = ShareResponse(route, gate.status, gate.error, shareId, accessToken)
            /\ shares' = IF auth.pass /\ accessToken # 0 /\ shareId \in DOMAIN shares
                            /\ shares[shareId].expiresAt < now
                         THEN Without(shares, shareId) ELSE shares
            /\ task' = task
       ELSE LET t == ShareTarget(shares[shareId], subPath) IN
            /\ shares' = shares
            /\ IF ~t.ok
               THEN /\ resp' = ShareResponse(route, 400,
                                  "Cannot access paths outside shared directory.",
                                  shareId, accessToken)
                    /\ task' = task
               ELSE /\ task' = [Idle EXCEPT !.pc = "await", !.route = route,
                                            !.validated = shares[shareId].resolvedPath,
                                            !.target = t.path,
                                            !.share = shareId, !.shareToken = accessToken]
                    /\ resp' = resp
    /\ UNCHANGED <<fs, AUTH_REQUIRED, READ_ONLY_MODE, storedPassword, sessionVersion, now, issued,
                   login, invalidations, minted, handed, hostChanges, retargeted, search>>

GetShareContent(shareId, accessToken, subPath) ==
    ShareAccess("shareContent", shareId, accessToken, subPath)

GetShareDownload(shareId, accessToken, subPath) ==
    ShareAccess("shareDownload", shareId, accessToken, subPath)

\* after the await: fsp.stat(targetPath), then readdir / readFile / createReadStream
ShareSend ==
    /\ task.pc = "await"
    /\ task.route \in {"shareContent", "shareDownload"}
    /\ LET st == realpath(fs, task.target) IN
       IF ~st.ok THEN Done(FinishError(st.err))
       ELSE IF NodeAt(fs, st.path).kind = "dir"
            THEN IF task.route = "shareContent"
                 THEN Done(Finish(200, "none", "list", st.path))
                 ELSE Done(Finish(400, "Cannot download directories directly.", "none", EMPTY))
            ELSE Done(Finish(200, "none", "read", st.path))
    /\ UNCHANGED <<fs, shares, minted>>
    /\ UNCHANGED Others

\* DELETE /:shareId
DeleteShare(creds, shareId) ==
    /\ nreq < MaxRequests
    /\ nreq' = nreq + 1
    /\ LET gate == GateFor("deleteShare", shareId, creds) IN
       IF ~gate.pass
       THEN /\ resp' = Response("deleteShare", gate.status, gate.error, creds)
            /\ shares' = shares
       ELSE IF shareId \in DOMAIN shares
       THEN /\ shares' = Without(shares, shareId)
            /\ resp' = [Response("deleteShare", 200, "Share deleted.", creds)
                            EXCEPT !.share = shareId]
       ELSE /\ shares' = shares
            /\ resp' = [Response("deleteShare", 404, "Share not found.", creds)
                            EXCEPT !.share = shareId]
    /\ UNCHANGED <<fs, AUTH_REQUIRED, READ_ONLY_MODE, storedPassword, sessionVersion, now, issued,
                   login, task, invalidations, minted, handed, hostChanges, retargeted, search>>

\* GET / (list): cleanupExpiredShares, then the listing
ListShares(creds) ==
    /\ nreq < MaxRequests
    /\ nreq' = nreq + 1
    /\ LET gate == Gate("listShares", creds) IN
       IF ~gate.pass
       THEN /\ resp' = Response("listShares", gate.status, gate.error, creds)
            /\ shares' = shares
       ELSE /\ shares' = cleanupExpiredShares(shares, now)
            /\ resp' = Response("listShares", 200, "none", creds)
    /\ UNCHANGED <<fs, AUTH_REQUIRED, READ_ONLY_MODE, storedPassword, sessionVersion, now, issued,
                   login, task, invalidations, minted, handed, hostChanges, retargeted, search>>

\* setInterval(cleanupExpiredShares, 5 * 60 * 1000)
SweepShares ==
    /\ shares' = cleanupExpiredShares(shares, now)
    /\ shares' # shares
    /\ UNCHANGED <<fs, AUTH_REQUIRED, READ_ONLY_MODE, storedPassword, sessionVersion, now, issued,
                   login, task, resp, invalidations, nreq, minted, handed, hostChanges, retargeted, search>>

----------------------------------------------------------------------------
(* routes/auth.js *)

\* EXPLORER_USERNAME and the password of that user
authUsername == <<"u">>
thePassword == <<"p", "w">>

\* String.prototype.split on a one-character separator
RECURSIVE SplitOn(_, _, _, _)
SplitOn(s, sep, cur, acc) ==
    IF s = EMPTY THEN Append(acc, cur)
    ELSE IF Head(s) = sep THEN SplitOn(Tail(s), sep, EMPTY, Append(acc, cur))
    ELSE SplitOn(Tail(s), sep, Append(cur, Head(s)), acc)
split(s, sep) == SplitOn(s, sep, EMPTY, <<>>)

\* crypto.scrypt(password, salt, 64) as hex: a digest that differs for every
\* pair of password and salt and holds no ":"
scrypt(password, salt) == <<"#">> \o salt \o <<"#">> \o password

\* crypto.scrypt throws ERR_INVALID_ARG_TYPE for a password that is neither a
\* string nor a buffer
scryptThrows(password) == typeof(password) # "string"

SCRYPT_PREFIX == <<"s", "c", "r", "y", "p", "t", ":">>

\* hashPassword, for the salt the operator's run of it drew
hashPassword(password, salt) ==
    SCRYPT_PREFIX \o salt \o <<":">> \o scrypt(password, salt)

\* EXPLORER_PASSWORD (plain text form) and EXPLORER_PASSWORD_HASH
AUTH_PASSWORD_PLAIN == thePassword
AUTH_PASSWORD_HASH == hashPassword(thePassword, <<"5">>)

\* what clients type at the login form: the right pair, a wrong password of
\* the same and of another length, a wrong username, a missing field
Logins == {<<authUsername, thePassword>>, <<authUsername, <<"p", "x">> >>,
           <<authUsername, <<"p">> >>, << <<"v">>, thePassword>>,
           <<EMPTY, thePassword>>, <<authUsername, EMPTY>>}

\* verifyPassword: whether its promise is rejected, and what it resolves to
\* when it is not
verifyPasswordThrows(password, storedHash) ==
    startsWith(storedHash, SCRYPT_PREFIX) /\ scryptThrows(password)

verifyPassword(password, storedHash) ==
    IF startsWith(storedHash, SCRYPT_PREFIX)
    THEN LET parts == split(storedHash, ":")
             salt == IF Len(parts) >= 2 THEN parts[2] ELSE EMPTY
             hash == IF Len(parts) >= 3 THEN parts[3] ELSE EMPTY
         IN safeCompare(scrypt(password, salt), hash)
    ELSE safeCompare(password, storedHash)

getSessionVersion == sessionVersion

incrementSessionVersion == sessionVersion + 1

NoLogin == [pc |-> "idle", username |-> EMPTY, password |-> EMPTY,
            usernameMatch |-> FALSE, startInv |-> 0, startVersion |-> 0]

\* POST /login up to `await verifyPassword(...)`
LoginStart(username, password) ==
    /\ login.pc = "idle"
    /\ nreq < MaxRequests
    /\ nreq' = nreq + 1
    /\ IF ~AUTH_REQUIRED
       THEN resp' = Response("login", 200, "authRequired: false", NoCreds) /\ login' = login
       ELSE IF username = EMPTY \/ password = EMPTY
       THEN resp' = Response("login", 400, "Username and password are required.", NoCreds)
            /\ login' = login
       ELSE /\ login' = [pc |-> "await", username |-> username, password |-> password,
                         usernameMatch |-> safeCompare(username, authUsername),
                         startInv |-> invalidations, startVersion |-> sessionVersion]
            /\ resp' = resp
    /\ UNCHANGED <<fs, AUTH_REQUIRED, READ_ONLY_MODE, storedPassword, sessionVersion, shares, now,
                   issued, task, invalidations, minted, handed, hostChanges, retargeted, search>>

\* the version as it was read before `await verifyPassword`: what C6 rules out
MintVersionBeforeAwait(pending) == pending.startVersion

\* the version jwt.sign embeds: read when the token is minted
MintVersion(pending) == getSessionVersion

\* jwt.sign({username, sessionVersion}, secret, {expiresIn: sessionTtlSeconds})
Mint(pending) ==
    [username |-> pending.username, sessionVersion |-> MintVersion(pending),
     exp |-> now \div MsPerSecond + SESSION_TTL_SECONDS, sig |-> "ok",
     startInv |-> pending.startInv, mintInv |-> invalidations]

\* generateCsrfToken (crypto.randomBytes(32)): a value never drawn before
generateCsrfToken == minted + 1

\* POST /login after the await
\* a rejection of verifyPassword's promise leaves the handler, which has no
\* try/catch: where the framework forwards a handler's rejected promise the
\* error middleware answers 500, where it does not the request gets no
\* response and the rejection is unhandled
LoginFinish ==
    /\ login.pc = "await"
    /\ IF verifyPasswordThrows(login.password, storedPassword)
       THEN /\ issued' = issued
            /\ minted' = minted
            /\ \/ login' = [login EXCEPT !.pc = "unhandled"] /\ resp' = resp
               \/ /\ login' = NoLogin
                  /\ resp' = Response("login", ErrorStatus("TypeError"),
                                      ErrorBody("TypeError"), NoCreds)
       ELSE IF ~login.usernameMatch \/ ~verifyPassword(login.password, storedPassword)
       THEN /\ resp' = Response("login", 401, "Invalid credentials.", NoCreds)
            /\ issued' = issued
            /\ minted' = minted
            /\ login' = NoLogin
       ELSE /\ issued' = issued \cup {Mint(login)}
            /\ resp' = [Response("login", 200, "authenticated", NoCreds)
                            EXCEPT !.token = Mint(login), !.csrfToken = generateCsrfToken]
            /\ minted' = generateCsrfToken
            /\ login' = NoLogin
    /\ UNCHANGED <<fs, AUTH_REQUIRED, READ_ONLY_MODE, storedPassword, sessionVersion, shares, now,
                   task, invalidations, nreq, handed, hostChanges, retargeted, search>>

\* a logout that invalidates the sessions as well: what C22 rules out
LogoutInvalidating(creds) ==
    /\ nreq < MaxRequests
    /\ nreq' = nreq + 1
    /\ resp' = IF ~AUTH_REQUIRED
               THEN Response("logout", 200, "authRequired: false", creds)
               ELSE Response("logout", 200, "Logged out.", creds)
    /\ sessionVersion' = IF AUTH_REQUIRED THEN sessionVersion + 1 ELSE sessionVersion
    /\ UNCHANGED <<fs, AUTH_REQUIRED, READ_ONLY_MODE, storedPassword, shares, now,
                   issued, login, task, invalidations, minted, handed, hostChanges,
                   retargeted, search>>

\* POST /logout: the cookies are cleared, nothing on the server changes
Logout(creds) ==
    /\ nreq < MaxRequests
    /\ nreq' = nreq + 1
    /\ resp' = IF ~AUTH_REQUIRED
               THEN Response("logout", 200, "authRequired: false", creds)
               ELSE Response("logout", 200, "Logged out.", creds)
    /\ UNCHANGED <<fs, AUTH_REQUIRED, READ_ONLY_MODE, storedPassword, sessionVersion, shares, now,
                   issued, login, task, invalidations, minted, handed, hostChanges, retargeted, search>>

\* POST /invalidate-sessions
InvalidateSessions(creds) ==
    /\ nreq < MaxRequests
    /\ nreq' = nreq + 1
    /\ LET gate == Gate("invalidateSessions", creds) IN
       IF ~gate.pass
       THEN /\ resp' = Response("invalidateSessions", gate.status, gate.error, creds)
            /\ UNCHANGED <<sessionVersion, invalidations>>
       ELSE IF ~AUTH_REQUIRED
       THEN /\ resp' = Response("invalidateSessions", 200, "authRequired: false", creds)
            /\ UNCHANGED <<sessionVersion, invalidations>>
       ELSE /\ sessionVersion' = incrementSessionVersion
            /\ invalidations' = invalidations + 1
            /\ resp' = Response("invalidateSessions", 200, "All sessions invalidated.", creds)
    /\ UNCHANGED <<fs, AUTH_REQUIRED, READ_ONLY_MODE, storedPassword, shares, now, issued, login,
                   task, minted, handed, hostChanges, retargeted, search>>

----------------------------------------------------------------------------
(* routes/search.js *)

DEFAULT_SEARCH_LIMIT == 100
MAX_SEARCH_LIMIT == 500
DEFAULT_SEARCH_TIMEOUT == 10000
MAX_SEARCH_TIMEOUT == 30000

\* String.prototype.toLowerCase on the letters of the names in use
LowerChar(c) ==
    CASE c = "A" -> "a" [] c = "B" -> "b" [] c = "C" -> "c" [] c = "D" -> "d"
      [] c = "E" -> "e" [] c = "F" -> "f" [] c = "G" -> "g" [] OTHER -> c
toLowerCase(s) == [i \in 1..Len(s) |-> LowerChar(s[i])]

\* String.prototype.includes
includes(s, q) ==
    \E i \in 0..(Len(s) - Len(q)) : SubSeq(s, i + 1, i + Len(q)) = q

Digits == {"0", "1", "2", "3", "4", "5", "6", "7", "8", "9"}
DigitValue(c) ==
    CASE c = "0" -> 0 [] c = "1" -> 1 [] c = "2" -> 2 [] c = "3" -> 3 [] c = "4" -> 4
      [] c = "5" -> 5 [] c = "6" -> 6 [] c = "7" -> 7 [] c = "8" -> 8 [] OTHER -> 9

RECURSIVE ParseDigits(_, _, _)
ParseDigits(s, i, acc) ==
    IF i > Len(s) \/ s[i] \notin Digits THEN acc
    ELSE ParseDigits(s, i + 1, acc * 10 + DigitValue(s[i]))

\* parseInt(string, 10): leading blanks, a sign, then digits up to the first
\* character that is none; NaN without a digit (and for an absent parameter)
NaN == [nan |-> TRUE, v |-> 0]
parseInt(string) ==
    LET t == TrimLeft(string)
        signed == t # EMPTY /\ t[1] \in {"-", "+"}
        first == IF signed THEN 2 ELSE 1
    IN IF first > Len(t) \/ t[first] \notin Digits THEN NaN
       ELSE [nan |-> FALSE,
             v |-> (IF signed /\ t[1] = "-" THEN 0 - 1 ELSE 1) * ParseDigits(t, first, 0)]

\* `value || fallback` for a number: NaN and 0 are falsy
OrDefault(n, fallback) == IF n.nan \/ n.v = 0 THEN fallback ELSE n.v

\* Math.min(parseInt(req.query.limit, 10) || 100, 500) without the Math.min:
\* what C18 rules out
searchLimitUnclamped(limit) == OrDefault(parseInt(limit), DEFAULT_SEARCH_LIMIT)

\* Math.min(parseInt(req.query.limit, 10) || 100, 500)
searchLimit(limit) ==
    Min(OrDefault(parseInt(limit), DEFAULT_SEARCH_LIMIT), MAX_SEARCH_LIMIT)

\* Math.min(parseInt(req.query.timeout, 10) || 10000, 30000)
searchTimeout(timeout) ==
    Min(OrDefault(parseInt(timeout), DEFAULT_SEARCH_TIMEOUT), MAX_SEARCH_TIMEOUT)

\* Date.now() - startTime > timeout
timeoutPassed(elapsed, timeout) == elapsed > timeout

\* lowerName.includes(lowerQuery)
matches(name, query) == includes(toLowerCase(name), toLowerCase(query))

\* fsp.readdir(dirPath, {withFileTypes: true}): the entries of a directory,
\* split by dirent.isDirectory() (a symlink is no directory)
Dirents(f, dirPath) == {p \in DOMAIN f : p # dirPath /\ dirname(p) = dirPath}
\* the split made with fs.stat, which follows symbolic links, so that a link
\* to a directory is recursed into: what C29 rules out
DirectoryNamesFollowing(f, dirPath) ==
    {basename(p) : p \in {e \in Dirents(f, dirPath) :
                              realpath(f, e).ok /\ f[realpath(f, e).path].kind = "dir"}}

DirectoryNames(f, dirPath) ==
    {basename(p) : p \in {e \in Dirents(f, dirPath) : f[e].kind = "dir"}}
\* the first loop running over every dirent, directories among them, as
\* readdir lists them: what C26 rules out
FileNamesUnsplit(f, dirPath) == {basename(p) : p \in Dirents(f, dirPath)}

FileNames(f, dirPath) ==
    {basename(p) : p \in {e \in Dirents(f, dirPath) : f[e].kind # "dir"}}

\* a call of searchDirectory: about to run its first checks ("enter"), in its
\* loop over the files, or in its loop over the directories
Frame(dirPath) == [dir |-> dirPath, phase |-> "enter", files |-> {}, directories |-> {}]

NoSearch == [pc |-> "idle", query |-> EMPTY, target |-> EMPTY, limit |-> 0,
             timeout |-> 0, elapsed |-> 0, stack |-> <<>>, results |-> {},
             timedOut |-> FALSE, truncated |-> FALSE,
             examined |-> {}, read |-> {}, reached |-> FALSE, late |-> FALSE,
             lastWork |-> 0, user |-> NoToken]

\* GET /api/search up to the first call of searchDirectory
GetSearch(creds, q, path, limit, timeout) ==
    /\ search.pc # "run"
    /\ task.pc = "idle"
    /\ nreq < MaxRequests
    /\ nreq' = nreq + 1
    /\ LET gate == Gate("search", creds)
           searchPath == IF path = EMPTY THEN DOT ELSE path
           r == resolveSafePathWithSymlinkCheck(fs, searchPath)
           st == realpath(fs, r.path)
       IN IF ~gate.pass
          THEN resp' = Response("search", gate.status, gate.error, creds) /\ search' = NoSearch
          ELSE IF q = EMPTY \/ trim(q) = EMPTY
          THEN /\ resp' = Response("search", 400, "Query parameter \"q\" is required.", creds)
               /\ search' = NoSearch
          ELSE IF ~r.ok
          THEN /\ resp' = Response("search", ErrorStatus(r.err), ErrorBody(r.err), creds)
               /\ search' = NoSearch
          ELSE IF ~st.ok
          THEN /\ resp' = Response("search", ErrorStatus(st.err), ErrorBody(st.err), creds)
               /\ search' = NoSearch
          ELSE IF NodeAt(fs, st.path).kind # "dir"
          THEN /\ resp' = Response("search", 400, "Search path must be a directory.", creds)
               /\ search' = NoSearch
          ELSE /\ search' = [NoSearch EXCEPT !.pc = "run", !.query = trim(q),
                                             !.target = r.path,
                                             !.limit = searchLimit(limit),
                                             !.timeout = searchTimeout(timeout),
                                             !.stack = <<Frame(r.path)>>,
                                             !.user = User("search", creds)]
               /\ resp' = resp
    /\ UNCHANGED <<fs, AUTH_REQUIRED, READ_ONLY_MODE, storedPassword, sessionVersion, shares, now, issued,
                   login, task, invalidations, minted, handed, hostChanges, retargeted>>

\* the innermost call of searchDirectory and what is left when it returns
Top == search.stack[Len(search.stack)]
Return == SubSeq(search.stack, 1, Len(search.stack) - 1)
Continue(frame) == [search.stack EXCEPT ![Len(search.stack)] = frame]

\* an entry whose name matches is pushed unless fsp.stat(entryPath) fails
Pushed(entryPath, name) ==
    IF matches(name, search.query) /\ realpath(fs, entryPath).ok
    THEN search.results \cup {entryPath} ELSE search.results

\* one step of searchDirectory: the checks and fsp.readdir at its start, or one
\* iteration of one of its two loops (the recursive call is the last thing an
\* iteration of the second loop does)
searchDirectory ==
    /\ search.pc = "run"
    /\ search.stack # <<>>
    /\ LET frame == Top
           full == Cardinality(search.results) >= search.limit
           passed == timeoutPassed(search.elapsed, search.timeout)
           atTimeout == search.elapsed >= search.timeout
       IN CASE frame.phase = "enter" ->
                IF full THEN search' = [search EXCEPT !.stack = Return]
                ELSE IF passed
                THEN search' = [search EXCEPT !.timedOut = TRUE, !.stack = Return,
                                              !.reached = TRUE]
                ELSE IF ~Exists(fs, frame.dir) \/ NodeAt(fs, frame.dir).kind # "dir"
                THEN search' = [search EXCEPT !.stack = Return,
                                              !.reached = @ \/ atTimeout]
                ELSE search' = [search EXCEPT
                        !.stack = Continue([frame EXCEPT
                                     !.phase = "files",
                                     !.files = FileNames(fs, frame.dir),
                                     !.directories = DirectoryNames(fs, frame.dir)]),
                        !.read = @ \cup {frame.dir},
                        !.reached = @ \/ atTimeout,
                        !.late = @ \/ atTimeout,
                        !.lastWork = search.elapsed]
            [] frame.phase = "files" ->
                IF frame.files = {} \/ full
                THEN search' = [search EXCEPT
                        !.stack = Continue([frame EXCEPT !.phase = "directories"])]
                ELSE IF passed
                THEN search' = [search EXCEPT
                        !.timedOut = TRUE, !.reached = TRUE,
                        !.stack = Continue([frame EXCEPT !.phase = "directories"])]
                ELSE \E name \in frame.files :
                       LET entryPath == join(frame.dir, name) IN
                       search' = [search EXCEPT
                           !.results = Pushed(entryPath, name),
                           !.stack = Continue([frame EXCEPT !.files = @ \ {name}]),
                           !.examined = @ \cup {entryPath},
                           !.reached = @ \/ atTimeout,
                           !.late = @ \/ atTimeout,
                           !.lastWork = search.elapsed]
            [] OTHER ->
                IF frame.directories = {} \/ full
                THEN search' = [search EXCEPT !.stack = Return]
                ELSE IF passed
                THEN search' = [search EXCEPT !.timedOut = TRUE, !.reached = TRUE,
                                              !.stack = Return]
                ELSE \E name \in frame.directories :
                       LET entryPath == join(frame.dir, name) IN
                       search' = [search EXCEPT
                           !.results = Pushed(entryPath, name),
                           !.stack = Continue([frame EXCEPT !.directories = @ \ {name}])
                                        \o <<Frame(entryPath)>>,
                           !.examined = @ \cup {entryPath},
                           !.reached = @ \/ atTimeout,
                           !.late = @ \/ atTimeout,
                           !.lastWork = search.elapsed]
    /\ UNCHANGED <<fs, AUTH_REQUIRED, READ_ONLY_MODE, storedPassword, sessionVersion, shares, now, issued,
                   login, task, resp, invalidations, nreq, minted, handed, hostChanges,
                   retargeted>>

\* after searchDirectory has returned: truncated = results.length >= limit,
\* and the response (the results go out sorted, directories first)
SearchReply ==
    /\ search.pc = "run"
    /\ search.stack = <<>>
    /\ search' = [search EXCEPT !.pc = "done",
                                !.truncated = Cardinality(search.results) >= search.limit]
    /\ resp' = Response("search", 200, "none", NoCreds)
    /\ UNCHANGED <<fs, AUTH_REQUIRED, READ_ONLY_MODE, storedPassword, sessionVersion, shares, now, issued,
                   login, task, invalidations, nreq, minted, handed, hostChanges, retargeted>>

\* time passing while a search is running: a millisecond at a time, up to
\* MaxElapsed of them, and once by the longest timeout a search can have
MaxElapsed == 3

SearchTick ==
    /\ search.pc = "run"
    /\ \/ /\ search.elapsed % MAX_SEARCH_TIMEOUT < MaxElapsed
          /\ search' = [search EXCEPT !.elapsed = @ + 1]
       \/ /\ search.elapsed < MAX_SEARCH_TIMEOUT
          /\ search' = [search EXCEPT !.elapsed = @ + MAX_SEARCH_TIMEOUT]
    /\ UNCHANGED <<fs, AUTH_REQUIRED, READ_ONLY_MODE, storedPassword, sessionVersion, shares, now, issued,
                   login, task, resp, invalidations, nreq, minted, handed, hostChanges,
                   retargeted>>

----------------------------------------------------------------------------
(* the clock *)

\* the clock advances in steps of half an hour, up to MaxHalfHours of them
HalfHourMs == MsPerHour \div 2
MaxHalfHours == 3
MaxSessionHalfHours == 2

Tick ==
    /\ now < MaxHalfHours * HalfHourMs
    /\ now' = now + HalfHourMs
    /\ UNCHANGED <<fs, AUTH_REQUIRED, READ_ONLY_MODE, storedPassword, sessionVersion, shares,
                   issued, login, task, resp, invalidations, nreq, minted, handed, hostChanges, retargeted, search>>

----------------------------------------------------------------------------
(* Initial states *)

NoShares == [id \in {} |-> 0]

\* the host at start: the root /r with a directory, a file and a symlink in
\* it, its sibling /r2 and the unrelated directory /o
InitFs ==
    (Abs(<<nR>>) :> Dir) @@ (Abs(<<nR, nA>>) :> Dir) @@ (Abs(<<nR, nA, nF>>) :> File)
    @@ (Abs(<<nR, nL>>) :> Link(Abs(<<nR, nA, nF>>)))
    @@ (Abs(<<nR2>>) :> Dir) @@ (Abs(<<nR2, nS>>) :> File)
    @@ (Abs(<<nO>>) :> Dir) @@ (Abs(<<nO, nS>>) :> File) @@ (Abs(<<nO, nF>>) :> File)

InitCommon ==
    /\ fs = InitFs
    /\ sessionVersion = 1
    /\ shares = NoShares
    /\ now = 0
    /\ issued = {}
    /\ login = NoLogin
    /\ task = Idle
    /\ resp = NoResponse
    /\ invalidations = 0
    /\ nreq = 0
    /\ minted = 0
    /\ handed = {}
    /\ hostChanges = 0
    /\ retargeted = {}
    /\ search = NoSearch
    /\ storedPassword = AUTH_PASSWORD_PLAIN

----------------------------------------------------------------------------
(* Path confinement: the file routes of a writable server without           *)
(* authentication, and the host changing the tree behind them               *)

ClientNames == {nN, Rel(<<DOTDOT, nN>>), <<" ">>}

InitPath ==
    /\ InitCommon
    /\ AUTH_REQUIRED = FALSE
    /\ READ_ONLY_MODE = FALSE

PathRequest ==
    \/ \E path \in ClientPaths : GetContent(NoCreds, path)
    \/ \E path \in ClientPaths : GetDownload(NoCreds, path)
    \/ \E path \in ClientPaths : GetTree(NoCreds, path)
    \/ \E path \in ClientPaths : DeleteEntry(NoCreds, path)
    \/ \E path \in ClientPaths, name \in ClientNames : PostFile(NoCreds, path, name)
    \/ \E path \in ClientPaths, name \in ClientNames : PostFolder(NoCreds, path, name)
    \/ \E path \in ClientPaths : PostShare(NoCreds, path, NoHours)

NextPath ==
    \/ nreq < MaxPathRequests /\ PathRequest
    \/ SendFile
    \/ ListTree
    \/ RemoveEntry
    \/ WriteFile
    \/ MakeFolder
    \/ StoreShare
    \/ \E p \in HostPaths, t \in LinkTargets : EnvSymlink(p, t)

SpecPath == InitPath /\ [][NextPath]_vars

----------------------------------------------------------------------------
(* Sessions and CSRF: login, invalidation and the routes behind requireAuth *)
(* and csrfProtection, with the clock running                               *)

\* tokens a client can present: none, one issued to it, or one it made up
Forgeries == {Forged(1)}
Tokens == issued \cup {NoToken} \cup Forgeries

CsrfPairs == {<<EMPTY, EMPTY>>, <<CsrfA, EMPTY>>, <<EMPTY, CsrfA>>, <<CsrfA, CsrfA>>,
              <<CsrfA, CsrfB>>, <<CsrfA, CsrfLong>>}

Creds == {[token |-> t, csrfCookie |-> c[1], csrfHeader |-> c[2]] :
            t \in Tokens, c \in CsrfPairs}

\* the same for the routes that read no CSRF cookie or header
ReadCreds == {[token |-> t, csrfCookie |-> EMPTY, csrfHeader |-> EMPTY] : t \in Tokens}

SessionPaths == {Rel(<<nA>>)}

InitSession ==
    /\ InitCommon
    /\ AUTH_REQUIRED \in BOOLEAN
    /\ READ_ONLY_MODE = FALSE

SessionRequest ==
    \/ \E l \in Logins : LoginStart(l[1], l[2])
    \/ \E creds \in ReadCreds : Logout(creds)
    \/ \E creds \in Creds : InvalidateSessions(creds)
    \/ \E creds \in ReadCreds : ListShares(creds)
    \/ \E creds \in ReadCreds, path \in SessionPaths : GetContent(creds, path)
    \/ \E creds \in Creds, path \in SessionPaths : DeleteEntry(creds, path)
    \/ \E creds \in Creds : PostFile(creds, DOT, nN)
    \/ \E creds \in Creds : PostFolder(creds, DOT, nN)
    \/ \E creds \in Creds : PostUpload(creds, DOT, nN)
    \/ \E creds \in Creds : PostShare(creds, Rel(<<nA>>), NoHours)
    \/ \E creds \in Creds, id \in 1..(minted + 1) : DeleteShare(creds, id)

NextSession ==
    \/ nreq < MaxSessionRequests /\ SessionRequest
    \/ LoginFinish
    \/ SendFile
    \/ RemoveEntry
    \/ WriteFile
    \/ MakeFolder
    \/ StoreUpload
    \/ StoreShare
    \/ now < MaxSessionHalfHours * HalfHourMs /\ Tick

SpecSession == InitSession /\ [][NextSession]_vars

----------------------------------------------------------------------------
(* Shares: a server without authentication whose clients create, verify,    *)
(* read and delete shares of a directory while the host plants a symlink     *)
(* inside it                                                                 *)

\* what clients type as access code: the first code in lower case, the second
\* code, or nothing
ClientCodes == {<<"a", "b", "c", "d", "e", "f">>, <<"A", "B", "C", "D", "E", "G">>, EMPTY}

\* an X-Share-Token value the server never issued
NeverIssued == 0 - 1

\* the X-Share-Token values a client can send: none (0), one some verify
\* request returned, or one it made up
ClientTokens == {0, NeverIssued} \cup {h[2] : h \in handed}

SubPaths == {EMPTY, Rel(<<nF>>), Rel(<<DOTDOT, nL>>)}

\* the ids a client can name: every id handed out so far, and one that is not
\* in the map
ShareIds == 1..Fresh

InitShare ==
    /\ InitCommon
    /\ AUTH_REQUIRED = FALSE
    /\ READ_ONLY_MODE = FALSE

ShareRequest ==
    \/ PostShare(NoCreds, Rel(<<nA>>), NoHours)
    \/ \E id \in ShareIds, code \in ClientCodes : VerifyShare(id, code)
    \/ \E id \in ShareIds, token \in ClientTokens, subPath \in SubPaths :
          GetShareContent(id, token, subPath)
    \/ \E id \in ShareIds, token \in ClientTokens, subPath \in SubPaths :
          GetShareDownload(id, token, subPath)
    \/ \E id \in ShareIds : DeleteShare(NoCreds, id)
    \/ ListShares(NoCreds)

NextShare ==
    \/ nreq < MaxShareRequests /\ ShareRequest
    \/ StoreShare
    \/ VerifyReply
    \/ ShareSend
    \/ EnvSymlink(Abs(<<nR, nA, nF>>), Abs(<<nO, nS>>))

SpecShare == InitShare /\ [][NextShare]_vars

----------------------------------------------------------------------------
(* The life of a share: a server without authentication whose clients       *)
(* create a one-hour share of a directory, verify, read, list and delete it  *)
(* while the clock runs, the sweep fires and the host removes the directory  *)

MaxLifecycleRequests == 3

InitLifecycle ==
    /\ InitCommon
    /\ AUTH_REQUIRED = FALSE
    /\ READ_ONLY_MODE = FALSE

LifecycleRequest ==
    \/ PostShare(NoCreds, Rel(<<nA>>), Hours(1))
    \/ \E id \in ShareIds, code \in ClientCodes : VerifyShare(id, code)
    \/ \E id \in ShareIds, token \in ClientTokens : GetShareContent(id, token, EMPTY)
    \/ \E id \in ShareIds, token \in ClientTokens : GetShareDownload(id, token, Rel(<<nF>>))
    \/ \E id \in ShareIds : DeleteShare(NoCreds, id)
    \/ ListShares(NoCreds)

NextLifecycle ==
    \/ nreq < MaxLifecycleRequests /\ LifecycleRequest
    \/ StoreShare
    \/ VerifyReply
    \/ ShareSend
    \/ SweepShares
    \/ Tick
    \/ EnvSymlink(Abs(<<nR, nA>>), Abs(<<nO, nZ>>))

SpecLifecycle == InitLifecycle /\ [][NextLifecycle]_vars

----------------------------------------------------------------------------
(* The owner and the visitors of a share: a server with authentication whose *)
(* owner logs in, creates and deletes shares, while visitors verify and read *)

\* what the owner's browser, or someone else's, sends along
OwnerCreds == {[token |-> t, csrfCookie |-> c[1], csrfHeader |-> c[2]] :
                 t \in issued \cup {NoToken},
                 c \in {<<CsrfA, CsrfA>>, <<CsrfA, CsrfB>>, <<EMPTY, EMPTY>>}}

InitOwner ==
    /\ InitCommon
    /\ AUTH_REQUIRED = TRUE
    /\ READ_ONLY_MODE = FALSE

OwnerRequest ==
    \/ LoginStart(authUsername, thePassword)
    \/ \E creds \in OwnerCreds : PostShare(creds, Rel(<<nA>>), NoHours)
    \/ \E creds \in OwnerCreds, id \in ShareIds : DeleteShare(creds, id)
    \/ \E id \in ShareIds : VerifyShare(id, <<"a", "b", "c", "d", "e", "f">>)
    \/ \E id \in ShareIds, token \in ClientTokens : GetShareContent(id, token, EMPTY)

NextOwner ==
    \/ OwnerRequest
    \/ LoginFinish
    \/ StoreShare
    \/ VerifyReply
    \/ ShareSend

SpecOwner == InitOwner /\ [][NextOwner]_vars

----------------------------------------------------------------------------
(* Claims on path confinement, checked under SpecPath *)

\* routes whose handler hands the client's path to resolveSafePathWithSymlinkCheck
PathRoutes == {"content", "download", "tree", "deleteEntry", "createShare"}
FileRoutes == PathRoutes \cup {"createFile", "createFolder", "upload"}

\* C1: whatever path string the client sends, resolveSafePathWithSymlinkCheck
\* either fails or returns the root or a descendant of it: a request that got
\* past its validation holds a path inside the root.
C1_ResolvedPathWithinRoot ==
    (task.pc = "await" /\ task.route \in FileRoutes) => IsWithinRoot(task.validated)

\* C2: the path written by create-file and create-folder, the resolved parent
\* joined with the client's name, is the root or a descendant of it (stated
\* for parents that themselves resolved inside the root).
C2_CreatedPathWithinRoot ==
    (/\ resp.route \in {"createFile", "createFolder"}
     /\ resp.act = "write"
     /\ IsWithinRoot(resp.validated))
    => IsWithinRoot(resp.touched)

\* C3: once a symlink on a path that resolved has been pointed outside the
\* root, a request for that path does not get past validation and is answered
\* with the escapes-root error.
C3_RetargetedSymlinkRejected ==
    [][\A c \in retargeted :
          /\ ~(/\ task.pc = "idle"
               /\ task'.pc = "await"
               /\ task'.route \in PathRoutes
               /\ task'.relative = c)
          /\ (/\ nreq' # nreq
              /\ task' = task
              /\ resp'.route \in PathRoutes
              /\ resp'.relative = c)
             => IsEscapeError(resp'.error)]_vars

\* C4: when the path a handler validated and the path it hands to the
\* filesystem both lie inside the root, the filesystem call made after the
\* validation reads, lists, writes or deletes inside the root only, whatever
\* happened to the tree in between.
C4_NoAccessOutsideRootAfterValidation ==
    (/\ resp.route \in FileRoutes
     /\ resp.act # "none"
     /\ IsWithinRoot(resp.validated)
     /\ IsWithinRoot(resp.target))
    => IsWithinRoot(resp.touched)

----------------------------------------------------------------------------
(* Claims on sessions and CSRF, checked under SpecSession *)

ProtectedRoutes == {"content", "download", "tree", "deleteEntry", "createFile",
                    "createFolder", "upload", "createShare", "deleteShare",
                    "listShares", "invalidateSessions"}

StateChangingRoutes == {"createFile", "upload", "createFolder", "deleteEntry",
                        "createShare", "deleteShare", "invalidateSessions"}

\* the token's signature verifies and its own expiry has not elapsed
Unexpired(t) == t.sig = "ok" /\ now \div MsPerSecond < t.exp

\* the token is that of a live session: unexpired and of the current version
TokenCurrent(t) == Unexpired(t) /\ t.sessionVersion = sessionVersion

\* C5: once invalidate-sessions has executed, every token issued before it is
\* rejected on every protected route, and while its signature is valid and its
\* expiry has not elapsed the rejection is the session-invalidated failure
C5_InvalidatedTokensRejected ==
    \A t \in issued, route \in ProtectedRoutes :
        t.mintInv < invalidations =>
            LET auth == requireAuth(AUTH_REQUIRED, sessionVersion, now, reqPath(route, 1), t)
            IN /\ ~auth.pass
               /\ auth.status = 401
               /\ Unexpired(t) => auth.error = "Session has been invalidated."

\* C5 happens: a request carrying an unexpired token issued before an
\* invalidation was answered 401 "Session has been invalidated."
C5_Witness ==
    /\ resp.token \in issued
    /\ resp.token.mintInv < invalidations
    /\ Unexpired(resp.token)
    /\ resp.route \in ProtectedRoutes
    /\ resp.status = 401
    /\ resp.error = "Session has been invalidated."

\* C6: whatever the interleaving of logins with invalidate-sessions, an
\* unexpired issued token is accepted exactly when no invalidation has executed
\* since it was minted: a token minted before an increment is never accepted
\* after it, and the version it embeds is the one current at minting
C6_TokenCarriesVersionAtMinting ==
    \A t \in issued, route \in ProtectedRoutes :
        Unexpired(t) =>
            (requireAuth(AUTH_REQUIRED, sessionVersion, now, reqPath(route, 1), t).pass
                <=> t.mintInv = invalidations)

\* C6 happens: a login that was suspended across an invalidation has answered
\* with its token, which carries the version of after the invalidation
C6_Witness ==
    /\ resp.route = "login"
    /\ resp.status = 200
    /\ resp.token \in issued
    /\ resp.token.startInv < resp.token.mintInv
    /\ resp.token.mintInv = invalidations
    /\ TokenCurrent(resp.token)

C8_AuthFailuresIndistinguishable ==
    \A t \in issued \cup Forgeries, route \in ProtectedRoutes :
        LET auth == requireAuth(AUTH_REQUIRED, sessionVersion, now, reqPath(route, 1), t)
        IN (/\ AUTH_REQUIRED
            /\ resp.route \in ProtectedRoutes
            /\ resp.status = 401
            /\ resp.token.sig # "none"
            /\ ~auth.pass)
           => /\ auth.status = resp.status
              /\ auth.error = resp.error

----------------------------------------------------------------------------
(* Claims on shares, checked under SpecShare *)

ShareRoutes == {"shareContent", "shareDownload"}

\* C9: what the content and download operations of a directory share read
\* lies at or below the shared directory, judged on the symlink-resolved path
C9_ShareReadsWithinSharedDirectory ==
    (/\ resp.route \in ShareRoutes
     /\ resp.act # "none"
     /\ Exists(fs, resp.validated)
     /\ NodeAt(fs, resp.validated).kind = "dir")
    => IsWithin(resp.touched, resp.validated)

\* the X-Share-Token t was returned by a successful verify of share s
Handed(s, t) == <<s, t>> \in handed

\* C10: the content and download operations of a share go ahead only for a
\* request whose X-Share-Token a successful verify of that same share returned;
\* a request with no token, a never-issued token or another share's token is
\* refused (401 without a token, else 403, or 404 when the share is gone) and
\* reads nothing; no share's token set holds a token returned for another
C10_ShareServedOnlyToItsTokens ==
    /\ (task.pc = "await" /\ task.route \in ShareRoutes)
          => Handed(task.share, task.shareToken)
    /\ (resp.route \in ShareRoutes /\ ~Handed(resp.share, resp.shareToken))
          => /\ resp.act = "none"
             /\ resp.status \in {401, 403, 404}
             /\ resp.shareToken = 0 => resp.status = 401
    /\ \A s \in DOMAIN shares, h \in handed :
          (h[1] # s) => h[2] \notin shares[s].accessTokens

\* C10 happens: with two shares in place and a token returned for the first,
\* a request for the second share carrying that token was refused
C10_Witness ==
    /\ resp.route \in ShareRoutes
    /\ resp.status = 403
    /\ resp.share \in DOMAIN shares
    /\ \E h \in handed : h[2] = resp.shareToken /\ h[1] # resp.share
                         /\ h[1] \in DOMAIN shares

\* C10 happens: a request carrying the token its own share's verify returned
\* was served
C10_Served ==
    /\ resp.route \in ShareRoutes
    /\ resp.act # "none"
    /\ Handed(resp.share, resp.shareToken)

----------------------------------------------------------------------------
(* Claims on the life of a share, checked under SpecLifecycle *)

VerifyAndShareRoutes == ShareRoutes \cup {"shareVerify"}

\* the record of share s says it has expired
Expired(s) == s \in DOMAIN shares /\ shares[s].expiresAt < now

\* this step takes in a request, and the request is answered in the same step
Replied == nreq' # nreq /\ task' = task /\ login' = login

\* this step takes in a request, whose handler is suspended at an await
Suspended == nreq' # nreq /\ task.pc = "idle" /\ task'.pc = "await"

\* C11: a verify request (with an access code) or a content/download request
\* (with a token) that arrives after the share's expiresAt is answered 404 and
\* the record is removed, its handler does not start, and no step moves
\* expiresAt or turns the clock back
C11_ExpiredShareStaysDead ==
    [][/\ (Suspended /\ task'.route \in VerifyAndShareRoutes) => ~Expired(task'.share)
       /\ (Replied /\ resp'.route \in VerifyAndShareRoutes /\ Expired(resp'.share)
             /\ resp'.status \notin {400, 401})
             => /\ resp'.status = 404
                /\ resp'.share \notin (DOMAIN shares')
       /\ now' >= now
       /\ \A s \in (DOMAIN shares) \cap (DOMAIN shares') :
             shares'[s].expiresAt = shares[s].expiresAt]_vars

\* C11 happens: a token returned before the expiry was presented after it; the
\* request was answered 404 "Share has expired." and the record is gone
C11_Witness ==
    /\ resp.route \in ShareRoutes
    /\ Handed(resp.share, resp.shareToken)
    /\ resp.status = 404
    /\ resp.error = "Share has expired."
    /\ resp.share \notin DOMAIN shares

\* the token sets hold only tokens that a verify request returned or is about
\* to return
TokensAccounted ==
    \A s \in DOMAIN shares : \A t \in shares[s].accessTokens :
        \/ Handed(s, t)
        \/ task.pc = "await" /\ task.route = "shareVerify"
            /\ task.share = s /\ task.shareToken = t

\* C12: verify ends not-found only for an unknown or an expired (and then
\* evicted) id, forbidden leaves the token set and the access count alone, and
\* every token added to a share's set is returned to the client that verified,
\* the access count growing by one with it
C12_VerifyOutcomes ==
    /\ (resp.route = "shareVerify" /\ resp.status = 404)
          => resp.share \notin DOMAIN shares
    /\ TokensAccounted
    /\ \A s \in DOMAIN shares :
          shares[s].accessCount = Cardinality(shares[s].accessTokens)

\* C14: a record enters the share map only when a create request stores it
\* under an id never used before, so a record that was deleted or evicted is
\* never in the map again, whatever request is in flight
C14_RemovedShareNeverBack ==
    [][\A s \in (DOMAIN shares') \ (DOMAIN shares) :
          /\ s = Fresh
          /\ task.pc = "await" /\ task.route = "createShare"]_vars

\* C14 happens: a verify request looked its record up, the record was then
\* removed, and the request finished with the record still out of the map
C14_Witness ==
    /\ resp.route = "shareVerify"
    /\ resp.status = 200
    /\ resp.share \notin DOMAIN shares
    /\ resp.share <= minted

----------------------------------------------------------------------------
(* Claim on share creation, checked under SpecShare *)

\* C13: any two records of the share map have distinct ids, each being stored
\* under its own, and distinct access codes
C13_SharesDistinct ==
    /\ \A a \in DOMAIN shares : shares[a].id = a
    /\ \A a, b \in DOMAIN shares :
          a # b => shares[a].accessCode # shares[b].accessCode

----------------------------------------------------------------------------
(* Claim on share deletion, checked under SpecOwner *)

\* C15: a delete request changes the share map only when it carries a live
\* session token and matching CSRF values; answered 200 it has removed exactly
\* the record named, answered 404 the id was not in the map and the map is as
\* before; verify and content/download for an id that is not in the map are
\* answered 404, whatever code or token they carry
C15_DeleteShare ==
    [][/\ (Replied /\ resp'.route = "deleteShare") =>
             /\ shares' # shares => TokenCurrent(resp'.token) /\ resp'.csrfOk
             /\ (TokenCurrent(resp'.token) /\ resp'.csrfOk)
                   => resp'.status = (IF resp'.share \in DOMAIN shares THEN 200 ELSE 404)
             /\ resp'.status = 200 =>
                   /\ DOMAIN shares' = (DOMAIN shares) \ {resp'.share}
                   /\ resp'.share \in DOMAIN shares
                   /\ \A k \in DOMAIN shares' : shares'[k] = shares[k]
             /\ resp'.status # 200 => shares' = shares
       /\ (Replied /\ resp'.route \in VerifyAndShareRoutes
             /\ resp'.share \notin DOMAIN shares /\ resp'.status \notin {400, 401})
             => resp'.status = 404
       /\ (Suspended /\ task'.route \in VerifyAndShareRoutes)
             => task'.share \in DOMAIN shares]_vars

\* C15 happens: the owner deleted a share for which a token had been returned,
\* and a request carrying that token was then answered 404
C15_Witness ==
    /\ resp.route \in ShareRoutes
    /\ Handed(resp.share, resp.shareToken)
    /\ resp.share \notin DOMAIN shares
    /\ resp.status = 404
    /\ resp.error = "Share not found or expired."

----------------------------------------------------------------------------
(* Search: one search request at a time over a tree with matching files and *)
(* directories at three depths, while time passes                           *)

nD  == <<"d">>
nFa == <<"f", "a">>
nFb == <<"F", "b">>
nFc == <<"f", "c">>
nFd == <<"f", "d">>
nFl == <<"f", "l">>
nX  == <<"x">>
nE  == <<"e">>
nUp == <<"u", "f">>

\* the root with two files, a dangling symlink and two directories in it, one
\* empty, and in the other a file, a symlink to the root and a directory with
\* one file
SearchFs ==
    (Abs(<<nR>>) :> Dir) @@ (Abs(<<nR, nFa>>) :> File) @@ (Abs(<<nR, nFb>>) :> File)
    @@ (Abs(<<nR, nFl>>) :> Link(Abs(<<nR, nZ>>)))
    @@ (Abs(<<nR, nD>>) :> Dir) @@ (Abs(<<nR, nD, nFc>>) :> File)
    @@ (Abs(<<nR, nD, nFd>>) :> Dir) @@ (Abs(<<nR, nD, nFd, nX>>) :> File)
    @@ (Abs(<<nR, nE>>) :> Dir) @@ (Abs(<<nR, nD, nUp>>) :> Link(Abs(<<nR>>)))

\* req.query.q, req.query.path, req.query.limit and req.query.timeout as
\* clients send them; an absent parameter is the empty string, which parseInt
\* and `||` treat as they treat undefined
SearchQueries == {EMPTY, <<" ">>, <<"f">>, <<"F", " ">>, <<"x">>}
SearchPaths == {EMPTY, Rel(<<nD>>), Rel(<<nFa>>)}
LimitParams == {EMPTY, <<"a", "b", "c">>, <<"0">>, <<"-", "1">>, <<"1">>, <<"2">>,
                <<"6", "0", "0">>}
TimeoutParams == {EMPTY, <<"0">>, <<"-", "1">>, <<"1">>, <<"2">>,
                  <<"9", "9", "9", "9", "9">>}

MaxSearchRequests == 1

InitSearch ==
    /\ AUTH_REQUIRED = FALSE
    /\ READ_ONLY_MODE = FALSE
    /\ fs = SearchFs
    /\ sessionVersion = 1
    /\ shares = NoShares
    /\ now = 0
    /\ issued = {}
    /\ login = NoLogin
    /\ task = Idle
    /\ resp = NoResponse
    /\ invalidations = 0
    /\ nreq = 0
    /\ minted = 0
    /\ handed = {}
    /\ hostChanges = 0
    /\ retargeted = {}
    /\ search = NoSearch
    /\ storedPassword = AUTH_PASSWORD_PLAIN

SearchRequest ==
    \E q \in SearchQueries, path \in SearchPaths, limit \in LimitParams,
       timeout \in TimeoutParams :
        GetSearch(NoCreds, q, path, limit, timeout)

\* searches share no state, so a run follows one traversal: requests are
\* taken until one of them starts it
NextSearch ==
    \/ nreq < MaxSearchRequests /\ search.pc = "idle" /\ SearchRequest
    \/ searchDirectory
    \/ SearchReply
    \/ SearchTick

SpecSearch == InitSearch /\ [][NextSearch]_vars

\* the entries below the directory searched whose name matches the query and
\* that fsp.stat can read
Matching ==
    {p \in DOMAIN fs : /\ p # search.target
                       /\ IsWithin(p, search.target)
                       /\ matches(basename(p), search.query)
                       /\ realpath(fs, p).ok}

\* the traversal has read every directory below the one searched and
\* examined every entry
Complete ==
    /\ search.examined = {p \in DOMAIN fs : p # search.target /\ IsWithin(p, search.target)}
    /\ search.read = {p \in DOMAIN fs : IsWithin(p, search.target) /\ fs[p].kind = "dir"}

\* C16: a search never holds more results than its effective limit; one that
\* ended without timing out over a tree with at least that many matching
\* entries returns exactly that many with truncated set, and one that
\* returns fewer than the limit has truncated clear
C16_SearchLimit ==
    /\ search.pc # "idle" => Cardinality(search.results) <= search.limit
    /\ search.pc = "done" =>
          /\ (Cardinality(Matching) >= search.limit /\ ~search.timedOut)
                => /\ Cardinality(search.results) = search.limit
                   /\ search.truncated
          /\ Cardinality(search.results) < search.limit => ~search.truncated

\* C17: the traversal neither reads a directory nor examines an entry at a
\* boundary where the elapsed time has reached the timeout; a boundary with
\* the time reached sets timedOut; a traversal that ran to completion leaves
\* timedOut clear
C17_SearchTimeout ==
    /\ ~search.late
    /\ search.reached => search.timedOut
    /\ (search.pc = "done" /\ Complete) => ~search.timedOut

\* C18: whatever limit and timeout the client asks for, the traversal runs
\* with a limit of at most 500 and a timeout of at most 30000 ms, holds at
\* most 500 results, and does no work once more than 30000 ms have passed
C18_SearchClamped ==
    search.pc # "idle" =>
        /\ search.limit <= MAX_SEARCH_LIMIT
        /\ search.timeout <= MAX_SEARCH_TIMEOUT
        /\ Cardinality(search.results) <= MAX_SEARCH_LIMIT
        /\ search.lastWork <= MAX_SEARCH_TIMEOUT

\* C18 happens: a search asked for more than both maxima, ran with the maxima
\* and was cut off by the timeout after 30000 ms
C18_Witness ==
    /\ search.pc = "done"
    /\ search.limit = MAX_SEARCH_LIMIT
    /\ search.timeout = MAX_SEARCH_TIMEOUT
    /\ search.timedOut
    /\ search.lastWork = MAX_SEARCH_TIMEOUT

----------------------------------------------------------------------------
(* Share creation with every kind of expiresInHours, while the clock runs *)

HourParams == {NoHours, Hours(0), Hours(0 - 3), Hours(1), Hours(5),
               Hours(MAX_SHARE_EXPIRY_HOURS), Hours(MAX_SHARE_EXPIRY_HOURS + 32)}

MaxCreateRequests == 2

InitCreate == InitCommon /\ AUTH_REQUIRED = FALSE /\ READ_ONLY_MODE = FALSE

NextCreate ==
    \/ nreq < MaxCreateRequests /\ \E h \in HourParams : PostShare(NoCreds, Rel(<<nA>>), h)
    \/ StoreShare
    \/ now < MaxSessionHalfHours * HalfHourMs /\ Tick

SpecCreate == InitCreate /\ [][NextCreate]_vars

\* the lifetime in hours that clamping the requested value to [1, 168] gives,
\* 24 for an absent value
ClampedHours(h) ==
    IF ~h.num THEN DEFAULT_SHARE_EXPIRY_HOURS
    ELSE Min(Max(1, h.v), MAX_SHARE_EXPIRY_HOURS)

\* C19: a share enters the map with a lifetime, expiresAt minus createdAt, of
\* the requested expiresInHours clamped to [1, 168] hours: 1 hour for 0 and
\* for negative values, 168 hours for larger ones, 24 hours for none
C19_LifetimeClamped ==
    [][\A s \in (DOMAIN shares') \ (DOMAIN shares) :
          shares'[s].expiresAt - shares'[s].createdAt
              = ClampedHours(task.asked) * MsPerHour]_vars

----------------------------------------------------------------------------
(* Read-only mode: servers started with and without READ_ONLY_MODE and      *)
(* AUTH_REQUIRED, whose clients log in and call the four write routes       *)

WriterCreds ==
    {[token |-> t, csrfCookie |-> c[1], csrfHeader |-> c[2]] :
        t \in issued \cup {NoToken}, c \in {<<CsrfA, CsrfA>>, <<EMPTY, EMPTY>>}}

MaxReadOnlyRequests == 3

InitReadOnly ==
    /\ InitCommon
    /\ AUTH_REQUIRED \in BOOLEAN
    /\ READ_ONLY_MODE \in BOOLEAN

ReadOnlyRequest ==
    \/ LoginStart(authUsername, thePassword)
    \/ \E creds \in WriterCreds, path \in {Rel(<<nA>>), Rel(<<nL>>)} : DeleteEntry(creds, path)
    \/ \E creds \in WriterCreds : PostFile(creds, DOT, nN)
    \/ \E creds \in WriterCreds : PostFolder(creds, Rel(<<nA>>), nN)
    \/ \E creds \in WriterCreds : PostUpload(creds, DOT, nF)

NextReadOnly ==
    \/ nreq < MaxReadOnlyRequests /\ ReadOnlyRequest
    \/ LoginFinish
    \/ RemoveEntry
    \/ WriteFile
    \/ MakeFolder
    \/ StoreUpload

SpecReadOnly == InitReadOnly /\ [][NextReadOnly]_vars

\* a step that takes a request for one of the four write routes, answered at
\* once or suspended in its handler
WriteRequest ==
    /\ nreq' # nreq
    /\ login' = login
    /\ \/ task' = task /\ resp'.route \in WriteRoutes
       \/ task' # task /\ task'.route \in WriteRoutes

----------------------------------------------------------------------------
(* Login: servers whose stored secret is the plain password or its scrypt   *)
(* hash, whose clients send well-formed and malformed login bodies and      *)
(* paths, and invalidate the sessions, while the clock runs                 *)

LoginUsernames == {authUsername, <<"v">>, EMPTY, Number7}
LoginPasswords == {thePassword, <<"p", "x">>, <<"p">>, EMPTY, Number7,
                   ArrayOf(thePassword), AUTH_PASSWORD_HASH}

\* the session cookie of an earlier login, none, or a token signed with
\* another secret that names the current or an older session version, with
\* matching CSRF values
LoginCreds ==
    {[token |-> t, csrfCookie |-> CsrfA, csrfHeader |-> CsrfA] :
        t \in issued \cup {NoToken, Forged(1), Forged(2)}}

MaxLoginRequests == 3

InitLogin ==
    /\ AUTH_REQUIRED \in BOOLEAN
    /\ READ_ONLY_MODE = FALSE
    /\ storedPassword \in {AUTH_PASSWORD_PLAIN, AUTH_PASSWORD_HASH}
    /\ fs = InitFs
    /\ sessionVersion = 1
    /\ shares = NoShares
    /\ now = 0
    /\ issued = {}
    /\ login = NoLogin
    /\ task = Idle
    /\ resp = NoResponse
    /\ invalidations = 0
    /\ nreq = 0
    /\ minted = 0
    /\ handed = {}
    /\ hostChanges = 0
    /\ retargeted = {}
    /\ search = NoSearch

LoginRequest ==
    \/ \E username \in LoginUsernames, password \in LoginPasswords :
          LoginStart(username, password)
    \/ \E creds \in LoginCreds : InvalidateSessions(creds)
    \/ \E creds \in LoginCreds, path \in {Rel(<<nA, nF>>), ArrayOf(nA)} :
          GetContent(creds, path)

NextLogin ==
    \/ nreq < MaxLoginRequests /\ LoginRequest
    \/ LoginFinish
    \/ SendFile
    \/ now < MaxSessionHalfHours * HalfHourMs /\ Tick

SpecLogin == InitLogin /\ [][NextLogin]_vars

\* C21: no request leaves its handler without a response as an unhandled
\* failure, whatever the types of the values it carries
C21_MalformedInputAnswered ==
    login.pc # "unhandled"

----------------------------------------------------------------------------
(* The whole server: every route, on servers with and without              *)
(* authentication                                                           *)

ServerCreds ==
    {[token |-> t, csrfCookie |-> c[1], csrfHeader |-> c[2]] :
        t \in issued \cup {NoToken, Forged(1)}, c \in {<<CsrfA, CsrfA>>, <<EMPTY, EMPTY>>}}

MaxServerRequests == 3

InitServer ==
    /\ InitCommon
    /\ AUTH_REQUIRED \in BOOLEAN
    /\ READ_ONLY_MODE = FALSE

ServerRequest ==
    \/ \E password \in {thePassword, <<"p", "x">>} : LoginStart(authUsername, password)
    \/ \E creds \in ServerCreds : Logout(creds)
    \/ \E creds \in ServerCreds : InvalidateSessions(creds)
    \/ \E creds \in ServerCreds : GetContent(creds, Rel(<<nA, nF>>))
    \/ \E creds \in ServerCreds : GetTree(creds, EMPTY)
    \/ \E creds \in ServerCreds : DeleteEntry(creds, Rel(<<nA>>))
    \/ \E creds \in ServerCreds : PostFile(creds, DOT, nN)
    \/ \E creds \in ServerCreds : PostFolder(creds, DOT, nN)
    \/ \E creds \in ServerCreds : PostUpload(creds, DOT, nN)
    \/ \E creds \in ServerCreds : PostShare(creds, Rel(<<nA>>), NoHours)
    \/ \E creds \in ServerCreds : ListShares(creds)
    \/ \E creds \in ServerCreds, id \in ShareIds \cup WordIds : DeleteShare(creds, id)
    \/ \E id \in ShareIds, code \in ClientCodes : VerifyShare(id, code)
    \/ \E id \in ShareIds, token \in ClientTokens : GetShareContent(id, token, EMPTY)
    \/ \E creds \in ServerCreds : GetSearch(creds, nF, EMPTY, EMPTY, EMPTY)

NextServer ==
    \/ nreq < MaxServerRequests /\ ServerRequest
    \/ LoginFinish
    \/ SendFile
    \/ ListTree
    \/ RemoveEntry
    \/ WriteFile
    \/ MakeFolder
    \/ StoreUpload
    \/ StoreShare
    \/ VerifyReply
    \/ ShareSend
    \/ searchDirectory
    \/ SearchReply

SpecServer == InitServer /\ [][NextServer]_vars

\* a step in which invalidate-sessions has run its handler on a server with
\* authentication
Invalidated ==
    /\ Replied
    /\ AUTH_REQUIRED
    /\ resp'.route = "invalidateSessions"
    /\ resp'.status = 200

\* C22: the session version is 1 plus the number of invalidations so far; a
\* step changes it only when invalidate-sessions succeeds, which adds exactly
\* 1, and every other step (login, logout, failed authentication, file,
\* search and share operations) leaves it and the standing of every issued
\* token as they were
C22_SessionVersionMonotonic ==
    /\ [](sessionVersion = 1 + invalidations)
    /\ [][/\ sessionVersion' >= sessionVersion
          /\ Invalidated <=> sessionVersion' = sessionVersion + 1
          /\ ~Invalidated => sessionVersion' = sessionVersion
          /\ ~Invalidated =>
                \A t \in issued : TokenCurrent(t)' = TokenCurrent(t)]_vars

\* C22 happens: a client logged in, the sessions were invalidated once, and
\* a logout after that left the version at 2
C22_Witness ==
    /\ sessionVersion = 2
    /\ issued # {}
    /\ resp.route = "logout"
    /\ resp.status = 200

----------------------------------------------------------------------------
(* Claims on login and on requireAuth, checked under SpecLogin *)

AuthFailures == {"Authentication required.", "Invalid or expired token.",
                 "Session has been invalidated."}

\* C23: with authentication required, a request for a protected route without
\* a token is answered 401 "Authentication required."; with a token whose
\* signature is bad or whose expiry has passed, 401 "Invalid or expired
\* token.", whatever its session version; with a well-signed unexpired token
\* of another session version, 401 "Session has been invalidated."; a request
\* gets past requireAuth only with a well-signed unexpired token of the
\* current version, and its handler then has that token's payload as req.user
C23_AuthClassification ==
    [][(AUTH_REQUIRED /\ nreq' # nreq /\ login' = login) =>
          /\ (task' = task /\ resp'.route \in ProtectedRoutes) =>
                LET t == resp'.token
                    failure(error) == resp'.status = 401 /\ resp'.error = error
                IN /\ t.sig = "none" => failure("Authentication required.")
                   /\ (t.sig # "none" /\ ~Unexpired(t))
                         => failure("Invalid or expired token.")
                   /\ (Unexpired(t) /\ t.sessionVersion # sessionVersion)
                         => failure("Session has been invalidated.")
                   /\ TokenCurrent(t) => resp'.error \notin AuthFailures
          /\ (task' # task /\ task'.route \in ProtectedRoutes) =>
                /\ task'.user \in issued
                /\ TokenCurrent(task'.user)]_vars

\* C23 happens: a token that is both expired and of a stale session version
\* was refused as invalid or expired
C23_Witness ==
    /\ AUTH_REQUIRED
    /\ resp.route \in ProtectedRoutes
    /\ resp.token \in issued
    /\ resp.token.sessionVersion # sessionVersion
    /\ resp.status = 401
    /\ resp.error = "Invalid or expired token."

----------------------------------------------------------------------------
(* Deleting entries on a writable server without authentication, while the *)
(* host makes an entry of the root a symlink to the root                    *)

RootPaths == {DOT, Rel(<<nA, DOTDOT>>), Rel(<<nL>>), Rel(<<nA>>), Rel(<<nA, nF>>),
              Rel(<<nL, nA>>), EMPTY}

MaxRootRequests == 3

InitRoot == InitCommon /\ AUTH_REQUIRED = FALSE /\ READ_ONLY_MODE = FALSE

NextRoot ==
    \/ nreq < MaxRootRequests /\ \E path \in RootPaths : DeleteEntry(NoCreds, path)
    \/ RemoveEntry
    \/ \E p \in {Abs(<<nR, nL>>), Abs(<<nR, nA>>)} : EnvSymlink(p, ROOT_DIRECTORY)

SpecRoot == InitRoot /\ [][NextRoot]_vars

\* C24: the root directory is never removed; a delete request whose path
\* resolves to the root is answered 400, "Cannot delete the root directory."
\* when it names a path at all, and changes nothing; no delete request is
\* handed on for removal with the root as its target
C24_RootNeverDeleted ==
    /\ [](ROOT_DIRECTORY \in DOMAIN fs /\ fs[ROOT_DIRECTORY] = Dir)
    /\ [][/\ (Replied /\ resp'.route = "deleteEntry") =>
               LET r == resolveSafePathWithSymlinkCheck(fs, resp'.relative) IN
               (r.ok /\ r.path = ROOT_DIRECTORY) =>
                   /\ resp'.status = 400
                   /\ fs' = fs
                   /\ resp'.relative # EMPTY =>
                         resp'.error = "Cannot delete the root directory."
          /\ (Suspended /\ task'.route = "deleteEntry") =>
               /\ task'.target # ROOT_DIRECTORY
               /\ resolveSafePathWithSymlinkCheck(fs, task'.relative).path
                     # ROOT_DIRECTORY]_vars

\* C24 happens: a symlink inside the root points at the root, and the delete
\* request that names it was rejected after other entries had been deleted
C24_Witness ==
    /\ resp.route = "deleteEntry"
    /\ resp.relative = Rel(<<nL>>)
    /\ Abs(<<nR, nL>>) \in DOMAIN fs
    /\ fs[Abs(<<nR, nL>>)] = Link(ROOT_DIRECTORY)
    /\ resp.status = 400
    /\ resp.error = "Cannot delete the root directory."
    /\ Abs(<<nR, nA>>) \notin DOMAIN fs

\* the credentials of the configured user: its name and its password, the
\* one the stored secret is the plain text or the scrypt hash of
RightCredentials(username, password) ==
    /\ username = authUsername
    /\ password = thePassword

\* C25: with authentication required, a login request ends with a session
\* token and a CSRF token drawn for it exactly when its username is the
\* configured one and its password the one the stored secret was made from,
\* for a plain and for a scrypt secret; the token carries the session version
\* current when it is minted and expires SESSION_TTL_SECONDS after that; a
\* wrong password of any length is answered 401; a login that fails sets no
\* cookie, and no other step issues a token
C25_LoginIssuesOnlyOnMatch ==
    [][/\ issued' # issued => login.pc = "await" /\ login'.pc = "idle"
       /\ (login.pc = "await" /\ login'.pc # "await") =>
             IF RightCredentials(login.username, login.password)
             THEN /\ resp'.route = "login" /\ resp'.status = 200
                  /\ issued' = issued \cup {resp'.token}
                  /\ resp'.token.sig = "ok"
                  /\ resp'.token.username = authUsername
                  /\ resp'.token.sessionVersion = sessionVersion
                  /\ resp'.token.exp = now \div MsPerSecond + SESSION_TTL_SECONDS
                  /\ resp'.csrfToken > minted
                  /\ minted' >= resp'.csrfToken
             ELSE /\ issued' = issued
                  /\ login'.pc = "idle" =>
                        /\ resp'.route = "login"
                        /\ resp'.token = NoToken /\ resp'.csrfToken = 0
                        /\ typeof(login.password) = "string" => resp'.status = 401
       /\ (nreq' # nreq /\ login' = login /\ task' = task /\ resp'.route = "login") =>
             /\ resp'.token = NoToken /\ resp'.csrfToken = 0
             /\ issued' = issued]_vars

\* C25 happens: on a server whose secret is a scrypt hash, a login after an
\* invalidation and after time has passed got a token of the new version
C25_Witness ==
    /\ storedPassword = AUTH_PASSWORD_HASH
    /\ resp.route = "login"
    /\ resp.status = 200
    /\ resp.token \in issued
    /\ resp.token.sessionVersion = 2
    /\ resp.token.exp > SESSION_TTL_SECONDS
    /\ resp.csrfToken # 0

\* the directories whose calls of searchDirectory have not returned
Open == {search.stack[i].dir : i \in 1..Len(search.stack)}

\* neither the limit nor the timeout has stopped the traversal
Unstopped ==
    /\ Cardinality(search.results) < search.limit
    /\ ~timeoutPassed(search.elapsed, search.timeout)

\* C26: inside a directory the search examines a subdirectory only after every
\* non-directory entry of that directory; it is depth-first, the calls in
\* progress forming one chain of nested directories and a subdirectory whose
\* call has returned unstopped having been examined whole; the results are
\* the matches among the entries examined, none of which is examined once the
\* limit is reached, so a matching file of a directory is in the results
\* whenever a match from one of its subdirectories is
C26_FilesBeforeDirectories ==
  /\ [][search'.examined # search.examined =>
          /\ Cardinality(search.results) < search.limit
          /\ Cardinality(search'.examined) = Cardinality(search.examined) + 1]_vars
  /\ [](search.pc # "idle" =>
        /\ \A e \in search.examined :
              NodeAt(fs, e).kind = "dir" =>
                 \/ ~Unstopped
                 \/ \A p \in Dirents(fs, dirname(e)) :
                       NodeAt(fs, p).kind # "dir" => p \in search.examined
        /\ \A i \in 2..Len(search.stack) :
              dirname(search.stack[i].dir) = search.stack[i - 1].dir
        /\ Unstopped =>
              \A e \in search.examined :
                 (NodeAt(fs, e).kind = "dir" /\ e \notin Open) =>
                    \A p \in DOMAIN fs : (p # e /\ IsWithin(p, e)) => p \in search.examined
        /\ search.results = search.examined \cap Matching
        /\ \A r \in search.results, f \in Matching :
              (/\ NodeAt(fs, f).kind # "dir"
               /\ IsWithin(r, dirname(f))
               /\ (dirname(r) # dirname(f) \/ NodeAt(fs, r).kind = "dir"))
                 => f \in search.results)

\* C26 happens: a search with limit 2 ended holding the two matching files of
\* the directory searched, having examined its subdirectory only as the limit
\* was reached, with a matching file inside that subdirectory left out
C26_Witness ==
    /\ search.pc = "done"
    /\ search.limit = 2
    /\ search.target = ROOT_DIRECTORY
    /\ search.results = {Abs(<<nR, nFa>>), Abs(<<nR, nFb>>)}
    /\ Abs(<<nR, nD, nFc>>) \in Matching
    /\ search.truncated

\* the entries below the directory searched
Tree == {p \in DOMAIN fs : p # search.target /\ IsWithin(p, search.target)}

\* what a call of searchDirectory has left to do: more before readdir than
\* any directory has entries, then one per entry left in its loops
RECURSIVE Remaining(_)
Remaining(stack) ==
    IF stack = <<>> THEN 0
    ELSE LET frame == stack[Len(stack)]
             rank == CASE frame.phase = "enter" -> Cardinality(DOMAIN fs) + 3
                       [] frame.phase = "files" -> 2
                       [] OTHER -> 1
         IN rank + Cardinality(frame.files) + Cardinality(frame.directories)
              + Remaining(SubSeq(stack, 1, Len(stack) - 1))

\* the work a traversal has left: the entries not examined yet, each worth a
\* whole call, and what the calls in progress have left
Variant ==
    (Cardinality(DOMAIN fs) + 4) * Cardinality(Tree \ search.examined)
        + Remaining(search.stack)

\* a step of the traversal
Traversed == search.pc = "run" /\ search'.pc = "run" /\ search'.stack # search.stack

\* C29: a search over a tree with a symbolic link to an ancestor directory
\* ends: every step of the traversal lowers a natural number, the work left;
\* searchDirectory is called only for the directory searched and for entries
\* that are real directories, a symbolic link being an entry of the first
\* loop; and no directory is read twice in one search
C29_SearchTerminates ==
    /\ [](search.pc = "run" =>
            \A i \in 2..Len(search.stack) :
                /\ search.stack[i].dir \in DOMAIN fs
                /\ fs[search.stack[i].dir].kind = "dir")
    /\ [][Traversed => Variant' < Variant /\ Variant' >= 0]_vars
    /\ [][(Traversed /\ search'.read # search.read) =>
              /\ Top.dir \notin search.read
              /\ search'.read = search.read \cup {Top.dir}]_vars
    /\ [][(Traversed /\ Len(search'.stack) > Len(search.stack)) =>
              search'.stack[Len(search'.stack)].dir \notin search.read]_vars

\* C29 happens: a search of the whole tree ran to its end, having examined
\* the link to the root as an entry and returned it, and read each directory
C29_Witness ==
    /\ search.pc = "done"
    /\ search.target = ROOT_DIRECTORY
    /\ Complete
    /\ ~search.timedOut
    /\ fs[Abs(<<nR, nD, nUp>>)].kind = "link"
    /\ realpath(fs, Abs(<<nR, nD, nUp>>)).path = ROOT_DIRECTORY
    /\ Abs(<<nR, nD, nUp>>) \in search.results

\* C27: a verify request answered with an error leaves every record of the
\* share map as it was before the request: one answered at once changes no
\* record that stays in the map, and one answered after the handler's await
\* leaves its share, if still in the map, without the token drawn for the
\* request and with the access count of the tokens it had before
C27_VerifyErrorLeavesShare ==
    [][/\ (/\ nreq' # nreq /\ task' = task
           /\ resp'.route = "shareVerify" /\ resp'.status # 200)
             => \A s \in (DOMAIN shares) \cap (DOMAIN shares') : shares'[s] = shares[s]
       /\ (/\ task.pc = "await" /\ task.route = "shareVerify" /\ task'.pc = "idle"
           /\ resp'.status # 200 /\ task.share \in DOMAIN shares')
             => /\ task.shareToken \notin shares'[task.share].accessTokens
                /\ shares'[task.share].accessCount
                     = Cardinality(shares'[task.share].accessTokens \ {task.shareToken})]_vars

\* the handlers a request without a session reaches
PublicRoutes == {"login", "status", "logout", "health",
                 "shareVerify", "shareContent", "shareDownload"}

\* the answers of the middleware in front of a handler
MiddlewareFailures ==
    AuthFailures \cup {"CSRF token validation failed.",
                       "Server is running in read-only mode."}

\* C30: with authentication required, a request for any other handler that
\* comes without a well-signed, unexpired token of the current session
\* version is stopped by the middleware in front of the handler and changes
\* nothing, whatever share id its path names; a handler other than the
\* public ones runs, at once or up to its first await, only for a request
\* with such a token
C30_NoHandlerWithoutSession ==
    [][(AUTH_REQUIRED /\ nreq' # nreq) =>
          /\ (/\ task' = task /\ login' = login /\ search'.pc # "run"
              /\ resp'.route \notin PublicRoutes
              /\ ~TokenCurrent(resp'.token))
                => /\ resp'.status \in {401, 403}
                   /\ resp'.error \in MiddlewareFailures
                   /\ shares' = shares
                   /\ sessionVersion' = sessionVersion
                   /\ fs' = fs
          /\ (task' # task /\ task'.route \notin PublicRoutes)
                => TokenCurrent(task'.user)
          /\ (search' # search /\ search'.pc = "run")
                => TokenCurrent(search'.user)]_vars

----------------------------------------------------------------------------
(* Sessions and shares side by side: a server with authentication whose      *)
(* owner logs in, shares a directory, logs out and invalidates the sessions  *)
(* while visitors verify and read the share                                  *)

VisitCreds ==
    {[token |-> t, csrfCookie |-> CsrfA, csrfHeader |-> CsrfA] : t \in issued \cup {NoToken}}

InitVisit ==
    /\ InitCommon
    /\ AUTH_REQUIRED = TRUE
    /\ READ_ONLY_MODE = FALSE

VisitRequest ==
    \/ LoginStart(authUsername, thePassword)
    \/ \E creds \in VisitCreds : PostShare(creds, Rel(<<nA>>), NoHours)
    \/ \E creds \in VisitCreds : InvalidateSessions(creds)
    \/ \E creds \in VisitCreds : Logout(creds)
    \/ \E id \in ShareIds : VerifyShare(id, <<"a", "b", "c", "d", "e", "f">>)
    \/ \E id \in ShareIds, token \in ClientTokens : GetShareContent(id, token, EMPTY)
    \/ \E id \in ShareIds, token \in ClientTokens :
          GetShareDownload(id, token, Rel(<<nF>>))

NextVisit ==
    \/ VisitRequest
    \/ LoginFinish
    \/ StoreShare
    \/ VerifyReply
    \/ ShareSend

SpecVisit == InitVisit /\ [][NextVisit]_vars

SessionRoutes == {"login", "logout", "invalidateSessions"}

\* a step of the session system: a login, logout or invalidate-sessions
\* request answered or suspended, a login finished, the version raised
SessionStep ==
    \/ nreq' # nreq /\ task' = task /\ resp'.route \in SessionRoutes
    \/ login' # login
    \/ sessionVersion' # sessionVersion
    \/ issued' # issued

\* C28: a step of the session system leaves the share map, with every token
\* set and access count, and the tokens handed out as they are; no share
\* request is refused for want of a session; a content or download request
\* that names a share in the map, unexpired, with a token of its set is let
\* through to the content, however often the sessions were invalidated
C28_SharesIndependentOfSessions ==
    [][/\ SessionStep => shares' = shares /\ handed' = handed
       /\ (nreq' # nreq /\ resp'.route \in ShareRoutes \cup {"shareVerify"})
             => resp'.error \notin AuthFailures
       /\ (/\ nreq' # nreq /\ task' = task /\ login' = login
           /\ resp'.route \in ShareRoutes
           /\ resp'.share \in DOMAIN shares
           /\ ~(shares[resp'.share].expiresAt < now)
           /\ resp'.shareToken \in shares[resp'.share].accessTokens)
             => resp'.status \notin {401, 403, 404}
       /\ (/\ nreq' # nreq /\ task' # task /\ task'.route \in ShareRoutes)
             => /\ task'.share \in DOMAIN shares
                /\ task'.shareToken \in shares[task'.share].accessTokens]_vars

\* C28 happens: the content of a share was served to a visitor after the
\* sessions were invalidated, when no session token was valid any more
C28_Witness ==
    /\ resp.route = "shareContent"
    /\ resp.status = 200
    /\ resp.act = "list"
    /\ Handed(resp.share, resp.shareToken)
    /\ sessionVersion = 2
    /\ issued # {}
    /\ \A t \in issued : ~TokenCurrent(t)

====
